---- MODULE Spec2Model ----
(***************************************************************************)
(* State-update engine of DragonBot (src/bot.py): the shared dragon's      *)
(* stats, the players table, and the handlers that mutate them.            *)
(*                                                                         *)
(* Identifiers of the catalog are transliterated to ASCII:                 *)
(*   hlib = bread, m_yaso = meat, medovukha = mead,                        *)
(*   magichne_zillya = magic potion, likuvalna_trava = healing herb,       *)
(*   drevniy_krystal = ancient crystal, vognyanyi_kamin = fire stone,      *)
(*   knyga_mudrosti = book of wisdom, tinovyi_plashch = shadow cloak;      *)
(*   abilities Iskorka (starting), Lyut (level 5), Regeneratsiya           *)
(*   (level 10), Vognyane_dykhannya, Telepatiya, Nevydymist (mutations).   *)
(* Time is counted in whole hours; a calendar date is now \div 24.         *)
(***************************************************************************)
EXTENDS Integers, Sequences, FiniteSets, TLC

\* ------------------------------------------------------------------ bounds
\* Number of handler runs, sweep ticks and clock advances in one behaviour.
MaxSteps == 2

\* ------------------------------------------------------- program constants
StarveHours == 360
MaxRounds == 10
PlayCost == 10
ExploreCost == 20
RestEnergy == 30
FeedAffection == 5
HoursPerDay == 24

Users == {1, 2}

Min(a, b) == IF a < b THEN a ELSE b
Max(a, b) == IF a > b THEN a ELSE b

\* random.randint(lo, hi): the two extreme draws.
RandInt(lo, hi) == {lo, hi}

\* ----------------------------------------------------------------- catalog
NoEffect ==
  [price |-> 0, hunger_restore |-> 0, health_restore |-> 0, energy_restore |-> 0,
   mood_boost |-> 0, strength_boost |-> 0, endurance_boost |-> 0,
   intelligence_boost |-> 0, charisma_boost |-> 0, exp_boost |-> 0,
   fire_mutation |-> FALSE, wisdom_mutation |-> FALSE, shadow_mutation |-> FALSE]

\* self.items; an effect key absent from an entry is 0 / FALSE here.
items ==
  [hlib            |-> [NoEffect EXCEPT !.price = 5, !.hunger_restore = 10],
   m_yaso          |-> [NoEffect EXCEPT !.price = 15, !.hunger_restore = 25,
                                        !.strength_boost = 1],
   medovukha       |-> [NoEffect EXCEPT !.price = 20, !.mood_boost = 15],
   magichne_zillya |-> [NoEffect EXCEPT !.price = 50, !.energy_restore = 30,
                                        !.intelligence_boost = 2],
   likuvalna_trava |-> [NoEffect EXCEPT !.price = 30, !.health_restore = 40],
   drevniy_krystal |-> [NoEffect EXCEPT !.price = 100, !.exp_boost = 50],
   vognyanyi_kamin |-> [NoEffect EXCEPT !.price = 200, !.fire_mutation = TRUE],
   knyga_mudrosti  |-> [NoEffect EXCEPT !.price = 150, !.wisdom_mutation = TRUE],
   tinovyi_plashch |-> [NoEffect EXCEPT !.price = 180, !.shadow_mutation = TRUE]]

\* Item ids a feed request carries: the catalog and one id outside it.
ItemIds == DOMAIN items \cup {"nevidomyi"}

\* Item ids a purchase request carries: a cheap item, a dearer one, the
\* dearest, and one id outside the catalog.
PurchaseIds == {"hlib", "likuvalna_trava", "vognyanyi_kamin", "nevidomyi"}

\* self.monsters
monsters ==
  [lisovyi_vovk         |-> [health |-> 30, attack |-> 8, reward |-> 15, exp |-> 10],
   goblinovyi_rozbiynyk |-> [health |-> 45, attack |-> 12, reward |-> 25, exp |-> 20],
   temnyi_mag           |-> [health |-> 60, attack |-> 15, reward |-> 40, exp |-> 35],
   drevniy_golem        |-> [health |-> 100, attack |-> 20, reward |-> 70, exp |-> 50]]

\* bonus_items of handle_daily_reward
bonus_items == {"hlib", "likuvalna_trava", "medovukha"}

\* --------------------------------------------------------------- the state
VARIABLES
  dragon_stats,   \* self.dragon_stats
  dragon_state,   \* table dragon_state, row id = 1 (NoRow when absent)
  players,        \* table players: user id -> row (NoRow when absent)
  player,         \* the player dict of the latest request, as its handler left it
  now,            \* the wall clock, in hours
  last,           \* the latest operation and what it returned
  totalExp,       \* history: all experience ever granted to the dragon
  steps,          \* history: operations performed so far
  tasks,          \* the coroutines in the event loop, each where it is suspended
  battle,         \* the locals of a battle_monster call that is under way
  exploredAt      \* history: the hour of the latest exploration that was carried out

vars == <<dragon_stats, dragon_state, players, player, now, last, totalExp, steps,
          tasks, battle, exploredAt>>

NoRow == [absent |-> TRUE]
NoDate == <<>>
NoPlayer == [user_id |-> 0]
NoTasks == <<>>
NoBattle == [over |-> TRUE]
Never == -1

\* date.today() / str(today)
Today(t) == <<t \div HoursPerDay>>

\* DragonBot.__init__: the default stats, built at time t.
DefaultStats(t) ==
  [level |-> 1, exp |-> 0, health |-> 100, max_health |-> 100, hunger |-> 50,
   energy |-> 100, mood |-> 70, strength |-> 10, endurance |-> 10,
   intelligence |-> 10, charisma |-> 10, mutations |-> <<>>,
   abilities |-> <<"Iskorka">>, last_fed |-> t, last_interaction |-> t,
   evolution_path |-> "neutral"]

InSeq(x, s) == \E k \in 1..Len(s) : s[k] = x

\* json.dumps(self.dragon_stats, default=str): the datetimes become strings.
DumpsStats(ds) ==
  [ds EXCEPT !.last_fed = <<"iso", @>>, !.last_interaction = <<"iso", @>>]

\* json.loads followed by datetime.fromisoformat on the two timestamps.
LoadsStats(row) ==
  [row EXCEPT !.last_fed = @[2], !.last_interaction = @[2]]

\* save_dragon_state: INSERT OR REPLACE of row 1.
SaveDragonState(ds) == DumpsStats(ds)

\* Stored texts no json.dumps of this program wrote: a stats column and an
\* inventory column that are not JSON, and an inventory column that is NULL.
GarbledRow == [garbled |-> TRUE]
Garbled == {<<"garbled">>}
Null == {<<"NULL">>}

\* load_dragon_state, lines 124-129: json.loads and the two fromisoformat
\* calls all succeed on the stored row.
StatsDecodable(row) ==
  /\ row # GarbledRow
  /\ row.last_fed[1] = "iso"
  /\ row.last_interaction[1] = "iso"

\* load_dragon_state: the defaults updated with the stored row, if there is
\* one and the try of lines 123-131 does not end in its except.
LoadDragonState(defaults, row) ==
  IF row = NoRow THEN defaults
  ELSE IF ~StatsDecodable(row) THEN defaults
  ELSE LoadsStats(row)

\* json.dumps(player['inventory']): the object's key/value pairs.
DumpsInventory(inv) == {<<i, inv[i]>> : i \in DOMAIN inv}

\* json.loads(player_dict['inventory'] or '{}')
LoadsInventory(text) ==
  LET json == IF text = Null THEN {} ELSE text
  IN [i \in {p[1] : p \in json} |-> (CHOOSE p \in json : p[1] = i)[2]]

\* get_player with INSERT OR REPLACE run on every call: the row is reset.
StoredRowResets(store, u) ==
  [gold |-> 100, level |-> 1, exp |-> 0, reputation |-> 0,
   inventory |-> DumpsInventory(<<>>), last_daily |-> NoDate,
   dragon_affection |-> 0]

\* get_player, the row it leaves in the table: inserted with the column
\* defaults when there is none.
StoredRow(store, u) ==
  IF store[u] = NoRow
  THEN [gold |-> 100, level |-> 1, exp |-> 0, reputation |-> 0,
        inventory |-> DumpsInventory(<<>>), last_daily |-> NoDate,
        dragon_affection |-> 0]
  ELSE store[u]

GetPlayerStore(store, u) == [store EXCEPT ![u] = StoredRow(store, u)]

\* get_player, the dict it returns.
GetPlayer(store, u) ==
  LET row == StoredRow(store, u)
  IN [user_id |-> u, gold |-> row.gold, level |-> row.level, exp |-> row.exp,
      reputation |-> row.reputation, inventory |-> LoadsInventory(row.inventory),
      last_daily |-> row.last_daily, dragon_affection |-> row.dragon_affection]

\* get_player, line 163: json.loads raises on the stored inventory text, and
\* nothing in get_player or its callers catches it.
GetPlayerRaises(store, u) == store[u] # NoRow /\ store[u].inventory = Garbled

\* save_player: UPDATE of every column but last_daily.
SavePlayer(store, p) ==
  [store EXCEPT ![p.user_id] =
     [@ EXCEPT !.gold = p.gold, !.level = p.level, !.exp = p.exp,
               !.reputation = p.reputation,
               !.inventory = DumpsInventory(p.inventory),
               !.dragon_affection = p.dragon_affection]]

\* ------------------------------------------------------------- progression
\* Lines 404-408 without the elif: level 10 unlocks nothing.
UnlockLevelAbilityOnlyLyut(level, abilities) ==
  IF level = 5 /\ ~InSeq("Lyut", abilities) THEN Append(abilities, "Lyut")
  ELSE abilities

\* check_level_up, the new-ability branch (lines 404-408).
UnlockLevelAbility(level, abilities) ==
  IF level = 5 /\ ~InSeq("Lyut", abilities) THEN Append(abilities, "Lyut")
  ELSE IF level = 10 /\ ~InSeq("Regeneratsiya", abilities)
       THEN Append(abilities, "Regeneratsiya")
       ELSE abilities

\* check_level_up without line 397: max_health stays where it was.
CheckLevelUpFlatHealth(ds) ==
  LET required_exp == ds.level * 100
  IN IF ds.exp >= required_exp
     THEN [stats |->
             [ds EXCEPT !.level = @ + 1,
                        !.exp = @ - required_exp,
                        !.health = ds.max_health,
                        !.strength = @ + 2,
                        !.endurance = @ + 2,
                        !.intelligence = @ + 1,
                        !.charisma = @ + 1,
                        !.abilities = UnlockLevelAbility(ds.level + 1, @)],
           leveled |-> TRUE]
     ELSE [stats |-> ds, leveled |-> FALSE]

\* check_level_up without line 396: the threshold stays in exp.
CheckLevelUpKeepsExp(ds) ==
  LET required_exp == ds.level * 100
  IN IF ds.exp >= required_exp
     THEN [stats |->
             [ds EXCEPT !.level = @ + 1,
                        !.max_health = @ + 20,
                        !.health = ds.max_health + 20,
                        !.strength = @ + 2,
                        !.endurance = @ + 2,
                        !.intelligence = @ + 1,
                        !.charisma = @ + 1,
                        !.abilities = UnlockLevelAbility(ds.level + 1, @)],
           leveled |-> TRUE]
     ELSE [stats |-> ds, leveled |-> FALSE]

\* check_level_up without line 398: no heal on level-up.
CheckLevelUpNoHeal(ds) ==
  LET required_exp == ds.level * 100
  IN IF ds.exp >= required_exp
     THEN [stats |->
             [ds EXCEPT !.level = @ + 1,
                        !.exp = @ - required_exp,
                        !.max_health = @ + 20,
                        !.strength = @ + 2,
                        !.endurance = @ + 2,
                        !.intelligence = @ + 1,
                        !.charisma = @ + 1,
                        !.abilities = UnlockLevelAbility(ds.level + 1, @)],
           leveled |-> TRUE]
     ELSE [stats |-> ds, leveled |-> FALSE]

\* check_level_up: the stats it leaves and the value it returns.
CheckLevelUp(ds) ==
  LET required_exp == ds.level * 100
  IN IF ds.exp >= required_exp
     THEN [stats |->
             [ds EXCEPT !.level = @ + 1,
                        !.exp = @ - required_exp,
                        !.max_health = @ + 20,
                        !.health = ds.max_health + 20,
                        !.strength = @ + 2,
                        !.endurance = @ + 2,
                        !.intelligence = @ + 1,
                        !.charisma = @ + 1,
                        !.abilities = UnlockLevelAbility(ds.level + 1, @)],
           leveled |-> TRUE]
     ELSE [stats |-> ds, leveled |-> FALSE]

\* ----------------------------------------------------------------- feeding
\* lines 233-236 with `< 0` for `<= 0`: an entry of count 0 stays.
RemoveItemKeepsZero(inv, item) ==
  IF inv[item] - 1 < 0
  THEN [i \in DOMAIN inv \ {item} |-> inv[i]]
  ELSE [inv EXCEPT ![item] = @ - 1]

\* feed_dragon, lines 233-236: one item leaves the inventory.
RemoveItem(inv, item) ==
  IF inv[item] - 1 <= 0
  THEN [i \in DOMAIN inv \ {item} |-> inv[i]]
  ELSE [inv EXCEPT ![item] = @ - 1]

\* feed_dragon, lines 242-261: the four restoring effects.
ApplyRestores(ds, item_data) ==
  [ds EXCEPT
     !.hunger = IF item_data.hunger_restore # 0
                THEN Min(100, @ + item_data.hunger_restore) ELSE @,
     !.health = IF item_data.health_restore # 0
                THEN Min(ds.max_health, @ + item_data.health_restore) ELSE @,
     !.energy = IF item_data.energy_restore # 0
                THEN Min(100, @ + item_data.energy_restore) ELSE @,
     !.mood = IF item_data.mood_boost # 0
              THEN Min(100, @ + item_data.mood_boost) ELSE @]

\* feed_dragon, lines 263-269: the stat boosts.
ApplyBoosts(ds, item_data) ==
  [ds EXCEPT !.strength = @ + item_data.strength_boost,
             !.endurance = @ + item_data.endurance_boost,
             !.intelligence = @ + item_data.intelligence_boost,
             !.charisma = @ + item_data.charisma_boost]

\* feed_dragon, lines 271-276: the experience boost and its level-up check.
ApplyExpBoost(ds, item_data) ==
  IF item_data.exp_boost # 0
  THEN CheckLevelUp([ds EXCEPT !.exp = @ + item_data.exp_boost]).stats
  ELSE ds

\* A mutation trigger without its `not in abilities` test.
MutateUnguarded(ds, present, roll, ability, path) ==
  IF present /\ roll
  THEN [ds EXCEPT !.abilities = Append(@, ability), !.evolution_path = path]
  ELSE ds

\* A mutation trigger without its assignment to evolution_path.
MutateKeepsPath(ds, present, roll, ability, path) ==
  IF present /\ roll /\ ~InSeq(ability, ds.abilities)
  THEN [ds EXCEPT !.abilities = Append(@, ability)]
  ELSE ds

\* feed_dragon, one mutation trigger (lines 280-285, 287-292, 294-299):
\* `present` is the item's flag, `roll` is random.random() < 0.3.
Mutate(ds, present, roll, ability, path) ==
  IF present /\ roll /\ ~InSeq(ability, ds.abilities)
  THEN [ds EXCEPT !.abilities = Append(@, ability), !.evolution_path = path]
  ELSE ds

\* feed_dragon, lines 278-299: the three triggers in turn, each with its own roll.
ApplyMutations(ds, item_data, rolls) ==
  LET a == Mutate(ds, item_data.fire_mutation, rolls[1], "Vognyane_dykhannya", "fire")
      b == Mutate(a, item_data.wisdom_mutation, rolls[2], "Telepatiya", "wisdom")
  IN Mutate(b, item_data.shadow_mutation, rolls[3], "Nevydymist", "shadow")

\* feed_dragon, lines 301-304.
UpdateRelationships(ds, t) == [ds EXCEPT !.last_fed = t, !.last_interaction = t]

\* feed_dragon, line 227: the player does not hold the item.
NotOwned(p, item) == item \notin DOMAIN p.inventory \/ p.inventory[item] <= 0

\* feed_dragon with lines 303-304 moved above the ownership test.
FeedDragonStampsFirst(ds, p, item, rolls, t) ==
  IF NotOwned(p, item)
  THEN [result |-> "ItemNotOwned", stats |-> UpdateRelationships(ds, t),
        player |-> p, saved |-> FALSE]
  ELSE IF item \notin DOMAIN items
  THEN [result |-> "UnknownItem", stats |-> ds, player |-> p, saved |-> FALSE]
  ELSE
    LET item_data == items[item]
        d1 == ApplyRestores(ds, item_data)
        d2 == ApplyBoosts(d1, item_data)
        d3 == ApplyExpBoost(d2, item_data)
        d4 == ApplyMutations(d3, item_data, rolls)
    IN [result |-> "fed",
        stats |-> UpdateRelationships(d4, t),
        player |-> [p EXCEPT !.inventory = RemoveItem(@, item),
                             !.dragon_affection = @ + FeedAffection],
        saved |-> TRUE]

\* feed_dragon: result, dragon stats and player dict it leaves, and whether it
\* reached its two saves.
FeedDragon(ds, p, item, rolls, t) ==
  IF NotOwned(p, item)
  THEN [result |-> "ItemNotOwned", stats |-> ds, player |-> p, saved |-> FALSE]
  ELSE IF item \notin DOMAIN items
  THEN [result |-> "UnknownItem", stats |-> ds, player |-> p, saved |-> FALSE]
  ELSE
    LET item_data == items[item]
        d1 == ApplyRestores(ds, item_data)
        d2 == ApplyBoosts(d1, item_data)
        d3 == ApplyExpBoost(d2, item_data)
        d4 == ApplyMutations(d3, item_data, rolls)
    IN [result |-> "fed",
        stats |-> UpdateRelationships(d4, t),
        player |-> [p EXCEPT !.inventory = RemoveItem(@, item),
                             !.dragon_affection = @ + FeedAffection],
        saved |-> TRUE]

\* -------------------------------------------------------- background sweep
\* Lines 443-447 with `>=` for `>`: the penalty already at 360 hours.
StarveAtThreshold(ds, t) ==
  IF t - ds.last_fed >= StarveHours
  THEN [ds EXCEPT !.health = Max(1, @ - 10), !.mood = Max(0, @ - 10)]
  ELSE ds

\* background_tasks, lines 443-447: the starvation penalty.
Starve(ds, t) ==
  IF t - ds.last_fed > StarveHours
  THEN [ds EXCEPT !.health = Max(1, @ - 10), !.mood = Max(0, @ - 10)]
  ELSE ds

\* Lines 419-441 without line 420: the tick leaves hunger alone.
DecayKeepsHunger(ds) ==
  LET hunger == ds.hunger
      energy1 == IF ds.mood > 50 THEN Max(0, ds.energy - 1) ELSE ds.energy
      mood1 == IF hunger < 20 THEN Max(0, ds.mood - 3)
               ELSE IF hunger > 80 THEN Min(100, ds.mood + 1) ELSE ds.mood
      mood2 == IF energy1 < 20 THEN Max(0, mood1 - 2) ELSE mood1
      energy2 == IF energy1 < 50 /\ hunger > 30 THEN Min(100, energy1 + 5)
                 ELSE energy1
      health == IF InSeq("Regeneratsiya", ds.abilities) /\ ds.health < ds.max_health
                THEN Min(ds.max_health, ds.health + 2) ELSE ds.health
  IN [ds EXCEPT !.hunger = hunger, !.energy = energy2, !.mood = mood2,
                !.health = health]

\* background_tasks, lines 419-441: decay, mood drift, recovery, regeneration.
Decay(ds) ==
  LET hunger == Max(0, ds.hunger - 2)
      energy1 == IF ds.mood > 50 THEN Max(0, ds.energy - 1) ELSE ds.energy
      mood1 == IF hunger < 20 THEN Max(0, ds.mood - 3)
               ELSE IF hunger > 80 THEN Min(100, ds.mood + 1) ELSE ds.mood
      mood2 == IF energy1 < 20 THEN Max(0, mood1 - 2) ELSE mood1
      energy2 == IF energy1 < 50 /\ hunger > 30 THEN Min(100, energy1 + 5)
                 ELSE energy1
      health == IF InSeq("Regeneratsiya", ds.abilities) /\ ds.health < ds.max_health
                THEN Min(ds.max_health, ds.health + 2) ELSE ds.health
  IN [ds EXCEPT !.hunger = hunger, !.energy = energy2, !.mood = mood2,
                !.health = health]

\* One pass of the loop body of background_tasks.
SweepTick(ds, t) == Starve(Decay(ds), t)

\* ------------------------------------------------------------------ combat
\* battle_monster, lines 650-660: the dragon's damage in one round.
\* jitter is the offset randint drew, fire is random.random() < 0.3.
DragonDamage(ds, dragon_health, jitter, fire) ==
  LET base == ds.strength + jitter
  IN IF InSeq("Vognyane_dykhannya", ds.abilities) /\ fire
     THEN (base * 3) \div 2
     ELSE IF InSeq("Lyut", ds.abilities) /\ 10 * dragon_health < 3 * ds.max_health
          THEN (base * 13) \div 10
          ELSE base

\* battle_monster, line 646 without `rounds < 10`.
BattleContinuesNoCap(b) == b.monster_health > 0 /\ b.dragon_health > 0

\* battle_monster, line 646: the condition of the round loop; b holds the
\* locals monster['health'], dragon_health and rounds.
BattleContinues(b) ==
  b.monster_health > 0 /\ b.dragon_health > 0 /\ b.rounds < MaxRounds

\* battle_monster, lines 647-675: one pass of the loop body. luck holds the
\* draws of the round: jitter, fire, mjitter (the monster's offset) and dodge
\* (the randint(1, 100) compared with intelligence). The break of line 665
\* is the first branch: the monster does not strike back.
BattleRound(ds, attack, b, luck) ==
  LET mh == b.monster_health - DragonDamage(ds, b.dragon_health, luck.jitter, luck.fire)
  IN IF mh <= 0
     THEN [monster_health |-> mh, dragon_health |-> b.dragon_health,
           rounds |-> b.rounds + 1]
     ELSE [monster_health |-> mh,
           dragon_health |-> IF luck.dodge <= ds.intelligence
                             THEN b.dragon_health
                             ELSE b.dragon_health - (attack + luck.mjitter),
           rounds |-> b.rounds + 1]

\* battle_monster, lines 645-675: the round loop, with the same draws in
\* every round.
RECURSIVE BattleLoop(_, _, _, _, _, _)
BattleLoop(ds, attack, monster_health, dragon_health, rounds, luck) ==
  LET b == [monster_health |-> monster_health, dragon_health |-> dragon_health,
            rounds |-> rounds]
  IN IF ~BattleContinues(b)
     THEN b
     ELSE LET n == BattleRound(ds, attack, b, luck)
          IN BattleLoop(ds, attack, n.monster_health, n.dragon_health, n.rounds, luck)

\* The draws of a battle: every draw in the dragon's favour, every draw
\* against it, and weak blows with every attack dodged.
Lucky == [jitter |-> 3, fire |-> TRUE, mjitter |-> -2, dodge |-> 1]
Unlucky == [jitter |-> -3, fire |-> FALSE, mjitter |-> 2, dodge |-> 100]
Evasive == [jitter |-> -3, fire |-> FALSE, mjitter |-> -2, dodge |-> 1]

\* The draws of explore_location: random.random() < 0.7 (encounter),
\* random.choice of the monster, the battle's draws, randint(10, 30).
ExploreDraws ==
  {[encounter |-> FALSE, monster_name |-> "lisovyi_vovk", luck |-> Lucky,
    treasure_gold |-> g] : g \in RandInt(10, 30)} \cup
  {[encounter |-> TRUE, monster_name |-> w[1], luck |-> w[2], treasure_gold |-> 10] :
     w \in {<<"lisovyi_vovk", Unlucky>>, <<"goblinovyi_rozbiynyk", Lucky>>,
            <<"temnyi_mag", Unlucky>>, <<"drevniy_golem", Lucky>>,
            <<"drevniy_golem", Unlucky>>, <<"drevniy_golem", Evasive>>}}

\* The draws of handle_daily_reward: randint(20, 50), randint(10, 25) and the
\* bonus item ("none" when random.random() >= 0.2).
DailyDraws ==
  {[gold_reward |-> 20, exp_reward |-> 10, bonus |-> "none"],
   [gold_reward |-> 50, exp_reward |-> 25, bonus |-> "hlib"]}

\* The result branch without line 693: a defeat keeps the battle's health.
BattleResultNoFloor(ds, p, monster, end) ==
  IF end.dragon_health > 0
  THEN [result |-> "victory",
        stats |-> CheckLevelUp([ds EXCEPT !.health = end.dragon_health,
                                          !.exp = @ + monster.exp]).stats,
        player |-> [p EXCEPT !.gold = @ + monster.reward,
                             !.reputation = @ + 1],
        gained |-> monster.exp, end |-> end]
  ELSE [result |-> "defeat",
        stats |-> [ds EXCEPT !.health = end.dragon_health],
        player |-> p, gained |-> 0, end |-> end]

\* The result branch without line 690: no level-up check after a victory.
BattleResultNoLevelCheck(ds, p, monster, end) ==
  IF end.dragon_health > 0
  THEN [result |-> "victory",
        stats |-> [ds EXCEPT !.health = end.dragon_health, !.exp = @ + monster.exp],
        player |-> [p EXCEPT !.gold = @ + monster.reward,
                             !.reputation = @ + 1],
        gained |-> monster.exp, end |-> end]
  ELSE [result |-> "defeat",
        stats |-> [ds EXCEPT !.health = 1],
        player |-> p, gained |-> 0, end |-> end]

\* The result branch with lines 681-682 moved above the test of line 678:
\* the reward and the reputation are granted on a defeat too.
BattleResultRewardsDefeat(ds, p, monster, end) ==
  IF end.dragon_health > 0
  THEN [result |-> "victory",
        stats |-> CheckLevelUp([ds EXCEPT !.health = end.dragon_health,
                                          !.exp = @ + monster.exp]).stats,
        player |-> [p EXCEPT !.gold = @ + monster.reward,
                             !.reputation = @ + 1],
        gained |-> monster.exp, end |-> end]
  ELSE [result |-> "defeat",
        stats |-> [ds EXCEPT !.health = 1],
        player |-> [p EXCEPT !.gold = @ + monster.reward,
                             !.reputation = @ + 1],
        gained |-> 0, end |-> end]

\* battle_monster, lines 677-698: the result branch, after the loop.
BattleResult(ds, p, monster, end) ==
  IF end.dragon_health > 0
  THEN [result |-> "victory",
        stats |-> CheckLevelUp([ds EXCEPT !.health = end.dragon_health,
                                          !.exp = @ + monster.exp]).stats,
        player |-> [p EXCEPT !.gold = @ + monster.reward,
                             !.reputation = @ + 1],
        gained |-> monster.exp, end |-> end]
  ELSE [result |-> "defeat",
        stats |-> [ds EXCEPT !.health = 1],
        player |-> p, gained |-> 0, end |-> end]

\* battle_monster
BattleMonster(ds, p, monster_name, luck) ==
  LET monster == monsters[monster_name]
  IN BattleResult(ds, p, monster,
                  BattleLoop(ds, monster.attack, monster.health, ds.health, 0, luck))

\* explore_location, lines 619-635: the treasure branch.
FindTreasure(ds, p, treasure_gold) ==
  [result |-> "treasure",
   stats |-> CheckLevelUp([ds EXCEPT !.exp = @ + 5]).stats,
   player |-> [p EXCEPT !.gold = @ + treasure_gold],
   gained |-> 5,
   end |-> [monster_health |-> 0, dragon_health |-> ds.health, rounds |-> 0]]

\* explore_location with line 613 inside the encounter branch: a treasure
\* find costs no energy.
ExploreLocationFreeTreasure(ds, p, encounter, monster_name, luck, treasure_gold) ==
  IF ds.energy < ExploreCost
  THEN [result |-> "InsufficientEnergy", stats |-> ds, player |-> p, gained |-> 0,
        end |-> [monster_health |-> 0, dragon_health |-> ds.health, rounds |-> 0]]
  ELSE LET spent == [ds EXCEPT !.energy = @ - ExploreCost]
       IN IF encounter
          THEN BattleMonster(spent, p, monster_name, luck)
          ELSE FindTreasure(ds, p, treasure_gold)

\* explore_location; `encounter` is random.random() < 0.7.
ExploreLocation(ds, p, encounter, monster_name, luck, treasure_gold) ==
  IF ds.energy < ExploreCost
  THEN [result |-> "InsufficientEnergy", stats |-> ds, player |-> p, gained |-> 0,
        end |-> [monster_health |-> 0, dragon_health |-> ds.health, rounds |-> 0]]
  ELSE LET spent == [ds EXCEPT !.energy = @ - ExploreCost]
       IN IF encounter
          THEN BattleMonster(spent, p, monster_name, luck)
          ELSE FindTreasure(spent, p, treasure_gold)

\* ----------------------------------------------------------------- economy
\* handle_purchase without the gold test of lines 769-776.
HandlePurchaseNoGoldCheck(p, item_id) ==
  IF item_id \notin DOMAIN items
  THEN [result |-> "UnknownItem", player |-> p, saved |-> FALSE]
  ELSE [result |-> "bought",
        player |-> [p EXCEPT
           !.gold = @ - items[item_id].price,
           !.inventory = IF item_id \in DOMAIN @
                         THEN [@ EXCEPT ![item_id] = @ + 1]
                         ELSE [i \in DOMAIN @ \cup {item_id} |->
                                 IF i = item_id THEN 1 ELSE @[i]]],
        saved |-> TRUE]

\* handle_purchase with line 782 as an assignment of 1: a held item's count
\* is reset instead of incremented.
HandlePurchaseResetsCount(p, item_id) ==
  IF item_id \notin DOMAIN items
  THEN [result |-> "UnknownItem", player |-> p, saved |-> FALSE]
  ELSE IF p.gold < items[item_id].price
  THEN [result |-> "InsufficientGold", player |-> p, saved |-> FALSE]
  ELSE [result |-> "bought",
        player |-> [p EXCEPT
           !.gold = @ - items[item_id].price,
           !.inventory = [i \in DOMAIN @ \cup {item_id} |->
                            IF i = item_id THEN 1 ELSE @[i]]],
        saved |-> TRUE]

\* handle_purchase
HandlePurchase(p, item_id) ==
  IF item_id \notin DOMAIN items
  THEN [result |-> "UnknownItem", player |-> p, saved |-> FALSE]
  ELSE IF p.gold < items[item_id].price
  THEN [result |-> "InsufficientGold", player |-> p, saved |-> FALSE]
  ELSE [result |-> "bought",
        player |-> [p EXCEPT
           !.gold = @ - items[item_id].price,
           !.inventory = IF item_id \in DOMAIN @
                         THEN [@ EXCEPT ![item_id] = @ + 1]
                         ELSE [i \in DOMAIN @ \cup {item_id} |->
                                 IF i = item_id THEN 1 ELSE @[i]]],
        saved |-> TRUE]

\* handle_daily_reward without line 897: a bonus item the player did not
\* hold stays at the count 0 of line 896.
HandleDailyRewardBonusZero(p, today, gold_reward, exp_reward, bonus) ==
  IF p.last_daily = today
  THEN [result |-> "AlreadyClaimedToday", player |-> p, saved |-> FALSE]
  ELSE [result |-> "claimed",
        player |-> [p EXCEPT
           !.gold = @ + gold_reward,
           !.exp = @ + exp_reward,
           !.last_daily = today,
           !.inventory = IF bonus = "none" THEN @
                         ELSE IF bonus \in DOMAIN @
                         THEN @
                         ELSE [i \in DOMAIN @ \cup {bonus} |->
                                 IF i = bonus THEN 0 ELSE @[i]]],
        saved |-> TRUE]

\* handle_daily_reward; bonus is "none" when random.random() >= 0.2.
HandleDailyReward(p, today, gold_reward, exp_reward, bonus) ==
  IF p.last_daily = today
  THEN [result |-> "AlreadyClaimedToday", player |-> p, saved |-> FALSE]
  ELSE [result |-> "claimed",
        player |-> [p EXCEPT
           !.gold = @ + gold_reward,
           !.exp = @ + exp_reward,
           !.last_daily = today,
           !.inventory = IF bonus = "none" THEN @
                         ELSE IF bonus \in DOMAIN @
                         THEN [@ EXCEPT ![bonus] = @ + 1]
                         ELSE [i \in DOMAIN @ \cup {bonus} |->
                                 IF i = bonus THEN 1 ELSE @[i]]],
        saved |-> TRUE]

\* ------------------------------------------------------- play, rest, words
\* handle_play without the min(100, ...) of line 825.
HandlePlayUnclampedMood(ds, p, mood_boost) ==
  IF ds.energy < PlayCost
  THEN [result |-> "InsufficientEnergy", stats |-> ds, player |-> p, saved |-> FALSE]
  ELSE [result |-> "played",
        stats |-> [ds EXCEPT !.energy = @ - PlayCost,
                             !.mood = @ + mood_boost],
        player |-> [p EXCEPT !.dragon_affection = @ + 3],
        saved |-> TRUE]

\* handle_play; mood_boost is random.randint(5, 15).
HandlePlay(ds, p, mood_boost) ==
  IF ds.energy < PlayCost
  THEN [result |-> "InsufficientEnergy", stats |-> ds, player |-> p, saved |-> FALSE]
  ELSE [result |-> "played",
        stats |-> [ds EXCEPT !.energy = @ - PlayCost,
                             !.mood = Min(100, @ + mood_boost)],
        player |-> [p EXCEPT !.dragon_affection = @ + 3],
        saved |-> TRUE]

\* handle_rest without the cap of line 850.
HandleRestNoCap(ds, p) ==
  LET health_restore ==
        IF p.dragon_affection > 50 /\ ds.health < ds.max_health
        THEN Min(10, ds.max_health - ds.health) ELSE 0
  IN [result |-> "rested",
      stats |-> [ds EXCEPT !.energy = @ + RestEnergy,
                           !.health = @ + health_restore],
      player |-> p]

\* handle_rest with the affection gain handle_play has (line 826).
HandleRestAddsAffection(ds, p) ==
  LET health_restore ==
        IF p.dragon_affection > 50 /\ ds.health < ds.max_health
        THEN Min(10, ds.max_health - ds.health) ELSE 0
  IN [result |-> "rested",
      stats |-> [ds EXCEPT !.energy = Min(100, @ + RestEnergy),
                           !.health = @ + health_restore],
      player |-> [p EXCEPT !.dragon_affection = @ + 3]]

\* handle_rest without the affection test of line 854.
HandleRestHealsAnyone(ds, p) ==
  LET health_restore ==
        IF ds.health < ds.max_health
        THEN Min(10, ds.max_health - ds.health) ELSE 0
  IN [result |-> "rested",
      stats |-> [ds EXCEPT !.energy = Min(100, @ + RestEnergy),
                           !.health = @ + health_restore],
      player |-> p]

\* handle_rest
HandleRest(ds, p) ==
  LET health_restore ==
        IF p.dragon_affection > 50 /\ ds.health < ds.max_health
        THEN Min(10, ds.max_health - ds.health) ELSE 0
  IN [result |-> "rested",
      stats |-> [ds EXCEPT !.energy = Min(100, @ + RestEnergy),
                           !.health = @ + health_restore],
      player |-> p]

\* handle_message without lines 1027-1028: the insult branch saves nothing.
HandleMessageInsultUnsaved(ds, p, kind) ==
  IF kind = "praise"
  THEN [result |-> "praised",
        stats |-> [ds EXCEPT !.mood = Min(100, @ + 5)],
        player |-> [p EXCEPT !.dragon_affection = @ + 2], saved |-> TRUE]
  ELSE IF kind = "insult"
  THEN [result |-> "insulted",
        stats |-> [ds EXCEPT !.mood = Max(0, @ - 10)],
        player |-> [p EXCEPT !.dragon_affection = @ - 5], saved |-> FALSE]
  ELSE [result |-> "greeted", stats |-> ds, player |-> p, saved |-> FALSE]

\* handle_message: the praise and insult branches mutate, a greeting does not.
HandleMessage(ds, p, kind) ==
  IF kind = "praise"
  THEN [result |-> "praised",
        stats |-> [ds EXCEPT !.mood = Min(100, @ + 5)],
        player |-> [p EXCEPT !.dragon_affection = @ + 2], saved |-> TRUE]
  ELSE IF kind = "insult"
  THEN [result |-> "insulted",
        stats |-> [ds EXCEPT !.mood = Max(0, @ - 10)],
        player |-> [p EXCEPT !.dragon_affection = @ - 5], saved |-> TRUE]
  ELSE [result |-> "greeted", stats |-> ds, player |-> p, saved |-> FALSE]

MessageKinds == {"praise", "insult"}

\* ------------------------------------------------------------ construction
\* The stats an earlier run of the bot left at level L: the defaults taken
\* through L - 1 level-ups by check_level_up itself.
RECURSIVE LevelledUp(_, _)
LevelledUp(ds, L) ==
  IF ds.level >= L THEN ds
  ELSE LevelledUp(CheckLevelUp([ds EXCEPT !.exp = ds.level * 100]).stats, L)

\* The experience granted on the way to level L.
RECURSIVE GrantedTo(_)
GrantedTo(L) == IF L <= 1 THEN 0 ELSE (L - 1) * 100 + GrantedTo(L - 1)

\* What the bot starts from: an empty database (fresh), or the database an
\* earlier run left behind, restarted `downtime` hours after its last save:
\* the dragon at `level` with `exp` towards the next one, its hunger, energy
\* and mood, at full health or at health 1 after a lost battle (hurt), and
\* the row of player 1 with gold, affection and inventory (stock).
Scenarios ==
  {[fresh |-> TRUE, level |-> 1, exp |-> 0, downtime |-> 0, hunger |-> 50,
    energy |-> 100, mood |-> 70, hurt |-> FALSE, gold |-> 100, affection |-> 0,
    stock |-> {}],
   [fresh |-> FALSE, level |-> 1, exp |-> 50, downtime |-> 0, hunger |-> 50,
    energy |-> 100, mood |-> 70, hurt |-> FALSE, gold |-> 120, affection |-> 55,
    stock |-> {<<"hlib", 1>>, <<"m_yaso", 2>>, <<"medovukha", 1>>}],
   [fresh |-> FALSE, level |-> 1, exp |-> 95, downtime |-> StarveHours, hunger |-> 96,
    energy |-> 15, mood |-> 8, hurt |-> TRUE, gold |-> 20, affection |-> 0,
    stock |-> {<<"likuvalna_trava", 1>>, <<"magichne_zillya", 1>>, <<"hlib", 2>>}],
   [fresh |-> FALSE, level |-> 4, exp |-> 350, downtime |-> 0, hunger |-> 50,
    energy |-> 100, mood |-> 70, hurt |-> FALSE, gold |-> 120, affection |-> 55,
    stock |-> {<<"drevniy_krystal", 1>>, <<"vognyanyi_kamin", 2>>}],
   [fresh |-> FALSE, level |-> 4, exp |-> 0, downtime |-> StarveHours, hunger |-> 20,
    energy |-> 100, mood |-> 95, hurt |-> FALSE, gold |-> 250, affection |-> 51,
    stock |-> {<<"knyga_mudrosti", 1>>, <<"tinovyi_plashch", 1>>,
               <<"vognyanyi_kamin", 1>>}],
   [fresh |-> FALSE, level |-> 9, exp |-> 850, downtime |-> 0, hunger |-> 50,
    energy |-> 100, mood |-> 70, hurt |-> TRUE, gold |-> 120, affection |-> 55,
    stock |-> {<<"drevniy_krystal", 1>>, <<"likuvalna_trava", 1>>}],
   [fresh |-> FALSE, level |-> 10, exp |-> 0, downtime |-> StarveHours, hunger |-> 4,
    energy |-> 30, mood |-> 70, hurt |-> TRUE, gold |-> 0, affection |-> 10,
    stock |-> {<<"hlib", 1>>}]}

\* The row of player 1 in the database of an earlier run.
StockedRow(sc) ==
  [gold |-> sc.gold, level |-> 1, exp |-> 0, reputation |-> sc.level - 1,
   inventory |-> sc.stock, last_daily |-> NoDate,
   dragon_affection |-> sc.affection]

\* The dragon stats an earlier run saved.
StoredStats(sc) ==
  [LevelledUp(DefaultStats(0), sc.level) EXCEPT
     !.exp = sc.exp, !.hunger = sc.hunger, !.energy = sc.energy,
     !.mood = sc.mood, !.health = IF sc.hurt THEN 1 ELSE @]

\* DragonBot.__init__ and init_database.
Init ==
  \E sc \in Scenarios :
    /\ now = sc.downtime
    /\ dragon_state = IF sc.fresh THEN NoRow ELSE SaveDragonState(StoredStats(sc))
    /\ dragon_stats = LoadDragonState(DefaultStats(now), dragon_state)
    /\ players = IF sc.fresh THEN [u \in Users |-> NoRow]
                 ELSE [u \in Users |-> IF u = 1 THEN StockedRow(sc) ELSE NoRow]
    /\ player = NoPlayer
    /\ last = [op |-> "init", result |-> "none"]
    /\ totalExp = GrantedTo(sc.level) + sc.exp
    /\ steps = 0
    /\ tasks = NoTasks
    /\ battle = NoBattle
    /\ exploredAt = Never

\* ----------------------------------------------------------------- actions
\* A request of user u: handle_callback_query / handle_message load the
\* player with get_player, run the handler, and the handler saves what it
\* changed.
Feed(u, item, rolls) ==
  LET r == FeedDragon(dragon_stats, GetPlayer(players, u), item, rolls, now)
  IN /\ steps < MaxSteps
     /\ dragon_stats' = r.stats
     /\ dragon_state' = IF r.saved THEN SaveDragonState(r.stats) ELSE dragon_state
     /\ players' = IF r.saved THEN SavePlayer(GetPlayerStore(players, u), r.player)
                   ELSE GetPlayerStore(players, u)
     /\ player' = r.player
     /\ last' = [op |-> "feed", result |-> r.result]
     /\ totalExp' = totalExp + (IF r.saved THEN items[item].exp_boost ELSE 0)
     /\ steps' = steps + 1
     /\ UNCHANGED <<now, tasks, battle, exploredAt>>

Purchase(u, item_id) ==
  LET r == HandlePurchase(GetPlayer(players, u), item_id)
  IN /\ steps < MaxSteps
     /\ players' = IF r.saved THEN SavePlayer(GetPlayerStore(players, u), r.player)
                   ELSE GetPlayerStore(players, u)
     /\ player' = r.player
     /\ last' = [op |-> "purchase", result |-> r.result]
     /\ steps' = steps + 1
     /\ UNCHANGED <<dragon_stats, dragon_state, now, totalExp, tasks, battle, exploredAt>>

DailyReward(u, gold_reward, exp_reward, bonus) ==
  LET r == HandleDailyReward(GetPlayer(players, u), Today(now), gold_reward,
                             exp_reward, bonus)
  IN /\ steps < MaxSteps
     /\ players' = IF r.saved THEN SavePlayer(GetPlayerStore(players, u), r.player)
                   ELSE GetPlayerStore(players, u)
     /\ player' = r.player
     /\ last' = [op |-> "daily", result |-> r.result]
     /\ steps' = steps + 1
     /\ UNCHANGED <<dragon_stats, dragon_state, now, totalExp, tasks, battle, exploredAt>>

Play(u, mood_boost) ==
  LET r == HandlePlay(dragon_stats, GetPlayer(players, u), mood_boost)
  IN /\ steps < MaxSteps
     /\ dragon_stats' = r.stats
     /\ dragon_state' = IF r.saved THEN SaveDragonState(r.stats) ELSE dragon_state
     /\ players' = IF r.saved THEN SavePlayer(GetPlayerStore(players, u), r.player)
                   ELSE GetPlayerStore(players, u)
     /\ player' = r.player
     /\ last' = [op |-> "play", result |-> r.result]
     /\ steps' = steps + 1
     /\ UNCHANGED <<now, totalExp, tasks, battle, exploredAt>>

Rest(u) ==
  LET r == HandleRest(dragon_stats, GetPlayer(players, u))
  IN /\ steps < MaxSteps
     /\ dragon_stats' = r.stats
     /\ dragon_state' = SaveDragonState(r.stats)
     /\ players' = GetPlayerStore(players, u)
     /\ player' = r.player
     /\ last' = [op |-> "rest", result |-> r.result]
     /\ steps' = steps + 1
     /\ UNCHANGED <<now, totalExp, tasks, battle, exploredAt>>

Explore(u, encounter, monster_name, luck, treasure_gold) ==
  LET r == ExploreLocation(dragon_stats, GetPlayer(players, u), encounter,
                           monster_name, luck, treasure_gold)
      done == r.result # "InsufficientEnergy"
  IN /\ steps < MaxSteps
     /\ dragon_stats' = r.stats
     /\ dragon_state' = IF done THEN SaveDragonState(r.stats) ELSE dragon_state
     /\ players' = IF done THEN SavePlayer(GetPlayerStore(players, u), r.player)
                   ELSE GetPlayerStore(players, u)
     /\ player' = r.player
     /\ last' = [op |-> "explore", result |-> r.result]
     /\ totalExp' = totalExp + r.gained
     /\ steps' = steps + 1
     /\ exploredAt' = IF done THEN now ELSE exploredAt
     /\ UNCHANGED <<now, tasks, battle>>

Message(u, kind) ==
  LET r == HandleMessage(dragon_stats, GetPlayer(players, u), kind)
  IN /\ steps < MaxSteps
     /\ dragon_stats' = r.stats
     /\ dragon_state' = IF r.saved THEN SaveDragonState(r.stats) ELSE dragon_state
     /\ players' = IF r.saved THEN SavePlayer(GetPlayerStore(players, u), r.player)
                   ELSE GetPlayerStore(players, u)
     /\ player' = r.player
     /\ last' = [op |-> "message", result |-> r.result]
     /\ steps' = steps + 1
     /\ UNCHANGED <<now, totalExp, tasks, battle, exploredAt>>

\* One pass of background_tasks after its sleep.
Sweep ==
  /\ steps < MaxSteps
  /\ dragon_stats' = SweepTick(dragon_stats, now)
  /\ dragon_state' = SaveDragonState(dragon_stats')
  /\ last' = [op |-> "sweep", result |-> "swept"]
  /\ steps' = steps + 1
  /\ UNCHANGED <<players, player, now, totalExp, tasks, battle, exploredAt>>

\* The wall clock moves on by an hour or by a day.
AdvanceTime(d) ==
  /\ steps < MaxSteps
  /\ now' = now + d
  /\ steps' = steps + 1
  /\ UNCHANGED <<dragon_stats, dragon_state, players, player, last, totalExp,
                 tasks, battle, exploredAt>>

Next ==
  \/ \E u \in Users, item \in ItemIds, roll \in BOOLEAN :
       Feed(u, item, <<roll, roll, roll>>)
  \/ \E u \in Users, item_id \in PurchaseIds : Purchase(u, item_id)
  \/ \E u \in Users, d \in DailyDraws :
       DailyReward(u, d.gold_reward, d.exp_reward, d.bonus)
  \/ \E u \in Users, mood_boost \in RandInt(5, 15) : Play(u, mood_boost)
  \/ \E u \in Users : Rest(u)
  \/ \E u \in Users, d \in ExploreDraws :
       Explore(u, d.encounter, d.monster_name, d.luck, d.treasure_gold)
  \/ \E u \in Users, kind \in MessageKinds : Message(u, kind)
  \/ Sweep
  \/ \E d \in {1, HoursPerDay} : AdvanceTime(d)

Spec == Init /\ [][Next]_vars

\* ------------------------------------------- check_level_up on its own
\* Largest level and largest experience (in units of 50) handed to
\* check_level_up when it is exercised on its own.
MaxInputLevel == 6
MaxInputExp == 12

\* check_level_up called on stats of any level with any experience, also
\* more than its callers in this file ever leave there.
InitLevelUp ==
  \E L \in 1..MaxInputLevel, k \in 0..MaxInputExp, hurt \in BOOLEAN :
    /\ dragon_stats = [LevelledUp(DefaultStats(0), L) EXCEPT
                         !.exp = 50 * k, !.health = IF hurt THEN 1 ELSE @]
    /\ dragon_state = NoRow
    /\ players = [u \in Users |-> NoRow]
    /\ player = NoPlayer
    /\ now = 0
    /\ last = [op |-> "init", result |-> "none"]
    /\ totalExp = GrantedTo(L) + 50 * k
    /\ steps = 0
    /\ tasks = NoTasks
    /\ battle = NoBattle
    /\ exploredAt = Never

CallCheckLevelUp ==
  LET r == CheckLevelUp(dragon_stats)
  IN /\ steps < MaxSteps
     /\ dragon_stats' = r.stats
     /\ last' = [op |-> "check_level_up",
                 result |-> IF r.leveled THEN "True" ELSE "False"]
     /\ steps' = steps + 1
     /\ UNCHANGED <<dragon_state, players, player, now, totalExp, tasks, battle, exploredAt>>

NextLevelUp == CallCheckLevelUp

SpecLevelUp == InitLevelUp /\ [][NextLevelUp]_vars

\* ------------------------------------------ coroutines in the event loop
\* Sweep ticks in one behaviour of the event-loop specification.
MaxTicks == 1

\* The two callback queries in flight and the background task.
Requests == {1, 2}
SweepTask == 3
TaskIds == Requests \cup {SweepTask}

\* A statement that hands control back to the event loop: `await` of network
\* I/O or of asyncio.sleep (lines 705, 740/747, 845, 417). `await` of
\* check_level_up or battle_monster (lines 618, 631, 690) runs the callee to
\* its end without returning to the loop, as neither contains such an await.
SuspendsAtEveryStatement(kind, pc) == TRUE

\* As Suspends, with battle_monster giving up control between its read of
\* health (line 640) and its write (line 679 or 693).
SuspendsInBattle(kind, pc) == pc \in {"answer", "reply", "done", "sleep", "battle_loop"}

Suspends(kind, pc) == pc \in {"answer", "reply", "done", "sleep"}

\* The shared state a statement acts on: self.dragon_stats and the two tables.
World(ds, row, store) == [stats |-> ds, row |-> row, store |-> store]

\* One statement of a callback query of kind "play" (handle_callback_query,
\* handle_play) or "explore" (handle_callback_query, explore_location,
\* battle_monster), or of background_tasks ("sweep"); t holds the coroutine's
\* position and locals, clock is datetime.now().
TaskStep(w, t, clock) ==
  LET cost == IF t.kind = "play" THEN PlayCost ELSE ExploreCost
      monster == monsters[t.draws.monster_name]
      goto(pc) == [w |-> w, t |-> [t EXCEPT !.pc = pc]]
  IN CASE t.pc = "answer" -> goto("get_player")
       [] t.pc = "get_player" ->
            [w |-> [w EXCEPT !.store = GetPlayerStore(@, t.user)],
             t |-> [t EXCEPT !.player = GetPlayer(w.store, t.user), !.pc = "check"]]
       [] t.pc = "check" ->
            IF w.stats.energy < cost
            THEN [w |-> w, t |-> [t EXCEPT !.result = "InsufficientEnergy",
                                           !.pc = "reply"]]
            ELSE goto("spend")
       [] t.pc = "spend" ->
            [w |-> [w EXCEPT !.stats.energy = @ - cost],
             t |-> [t EXCEPT !.pc = IF t.kind = "play" THEN "boost"
                                    ELSE IF t.draws.encounter THEN "battle_read"
                                    ELSE "treasure"]]
       [] t.pc = "boost" ->
            [w |-> [w EXCEPT !.stats.mood = Min(100, @ + t.draws.mood_boost)],
             t |-> [t EXCEPT !.player.dragon_affection = @ + 3,
                             !.result = "played", !.pc = "save"]]
       [] t.pc = "battle_read" ->
            [w |-> w, t |-> [t EXCEPT !.dragon_health = w.stats.health,
                                      !.pc = "battle_loop"]]
       [] t.pc = "battle_loop" ->
            [w |-> w,
             t |-> [t EXCEPT !.end = BattleLoop(w.stats, monster.attack, monster.health,
                                                t.dragon_health, 0, t.draws.luck),
                             !.pc = "battle_result"]]
       [] t.pc = "battle_result" ->
            LET r == BattleResult(w.stats, t.player, monster, t.end)
            IN [w |-> [w EXCEPT !.stats = r.stats],
                t |-> [t EXCEPT !.player = r.player, !.result = r.result, !.pc = "save"]]
       [] t.pc = "treasure" ->
            LET r == FindTreasure(w.stats, t.player, t.draws.treasure_gold)
            IN [w |-> [w EXCEPT !.stats = r.stats],
                t |-> [t EXCEPT !.player = r.player, !.result = r.result, !.pc = "save"]]
       [] t.pc = "save" ->
            [w |-> [w EXCEPT !.store = SavePlayer(@, t.player),
                             !.row = SaveDragonState(w.stats)],
             t |-> [t EXCEPT !.pc = "reply"]]
       [] t.pc = "reply" -> goto("done")
       [] t.pc = "sleep" -> goto("decay")
       [] t.pc = "decay" ->
            [w |-> [w EXCEPT !.stats = Decay(@)], t |-> [t EXCEPT !.pc = "starve"]]
       [] t.pc = "starve" ->
            [w |-> [w EXCEPT !.stats = Starve(@, clock)],
             t |-> [t EXCEPT !.pc = "save_state"]]
       [] t.pc = "save_state" ->
            [w |-> [w EXCEPT !.row = SaveDragonState(w.stats)],
             t |-> [t EXCEPT !.ticks = @ + 1, !.pc = "sleep"]]

\* The event loop runs a coroutine it has resumed until the coroutine's next
\* suspending statement.
RECURSIVE RunToSuspension(_, _, _)
RunToSuspension(w, t, clock) ==
  LET r == TaskStep(w, t, clock)
  IN IF Suspends(r.t.kind, r.t.pc) THEN r ELSE RunToSuspension(r.w, r.t, clock)

\* A handler run from its get_player to its saves in one piece, as the
\* actions Play and Explore run it.
RunRequest(w, t) ==
  LET p == GetPlayer(w.store, t.user)
      store == GetPlayerStore(w.store, t.user)
      r == IF t.kind = "play"
           THEN HandlePlay(w.stats, p, t.draws.mood_boost)
           ELSE ExploreLocation(w.stats, p, t.draws.encounter, t.draws.monster_name,
                                t.draws.luck, t.draws.treasure_gold)
      saved == r.result # "InsufficientEnergy"
  IN [stats |-> r.stats,
      row |-> IF saved THEN SaveDragonState(r.stats) ELSE w.row,
      store |-> IF saved THEN SavePlayer(store, r.player) ELSE store]

\* A sweep tick run in one piece, as the action Sweep runs it.
RunSweep(w, clock) ==
  [w EXCEPT !.stats = SweepTick(w.stats, clock),
            !.row = SaveDragonState(SweepTick(w.stats, clock))]

\* The worlds that running the requests in `pending` and k sweep ticks one
\* after the other, in any order, can leave.
RECURSIVE Serial(_, _, _, _)
Serial(w, pending, k, clock) ==
  IF pending = {} /\ k = 0
  THEN {w}
  ELSE UNION ({Serial(RunRequest(w, tasks.task[i]), pending \ {i}, k, clock) :
                 i \in pending}
              \cup (IF k > 0 THEN {Serial(RunSweep(w, clock), pending, k - 1, clock)}
                    ELSE {}))

\* The dragons the two requests meet: a healthy one, one unfed for more than
\* 360 hours, and a hurt, unfed one with Regeneratsiya; with energy for one
\* play only, for one exploration only, or as stored.
TaskScenarios == {sc \in Scenarios : sc.level \in {4, 10}}
TaskEnergies(sc) == {PlayCost, ExploreCost, sc.energy}

\* The draws of a request: of handle_play (randint(5, 15)) or of
\* explore_location.
TaskDraws(kind) ==
  IF kind = "play"
  THEN {[mood_boost |-> m, encounter |-> FALSE, monster_name |-> "lisovyi_vovk",
         luck |-> Lucky, treasure_gold |-> 10] : m \in RandInt(5, 15)}
  ELSE {[mood_boost |-> 5, encounter |-> d.encounter, monster_name |-> d.monster_name,
         luck |-> d.luck, treasure_gold |-> d.treasure_gold] : d \in ExploreDraws}

NewTask(kind, user, pc, draws) ==
  [kind |-> kind, user |-> user, pc |-> pc, draws |-> draws, player |-> NoPlayer,
   dragon_health |-> 0,
   end |-> [monster_health |-> 0, dragon_health |-> 0, rounds |-> 0],
   result |-> "none", ticks |-> 0]

\* The bot built inside a running event loop (so that create_task of line 71
\* succeeds), the sweep asleep, and two callback queries of players 1 and 2
\* dispatched to handle_callback_query.
InitTasks ==
  \E sc \in TaskScenarios, k1, k2 \in {"play", "explore"} :
    \E e \in TaskEnergies(sc), d1 \in TaskDraws(k1), d2 \in TaskDraws(k2) :
      /\ now = sc.downtime + 1
      /\ dragon_state = SaveDragonState([StoredStats(sc) EXCEPT !.energy = e])
      /\ dragon_stats = LoadDragonState(DefaultStats(now), dragon_state)
      /\ players = [u \in Users |-> IF u = 1 THEN StockedRow(sc) ELSE NoRow]
      /\ player = NoPlayer
      /\ last = [op |-> "init", result |-> "none"]
      /\ totalExp = GrantedTo(sc.level) + sc.exp
      /\ steps = 0
      /\ battle = NoBattle
      /\ exploredAt = Never
      /\ tasks = [task |-> [i \in TaskIds |->
                              IF i = 1 THEN NewTask(k1, 1, "answer", d1)
                              ELSE IF i = 2 THEN NewTask(k2, 2, "answer", d2)
                              ELSE NewTask("sweep", 0, "sleep", d1)],
                  start |-> World(dragon_stats, dragon_state, players)]

\* The event loop resumes request i.
Resume(i) ==
  LET t == tasks.task[i]
      r == RunToSuspension(World(dragon_stats, dragon_state, players), t, now)
  IN /\ t.pc # "done"
     /\ dragon_stats' = r.w.stats
     /\ dragon_state' = r.w.row
     /\ players' = r.w.store
     /\ tasks' = [tasks EXCEPT !.task[i] = r.t]
     /\ player' = r.t.player
     /\ last' = [op |-> t.kind, result |-> r.t.result]
     /\ steps' = steps + 1
     /\ UNCHANGED <<now, totalExp, battle, exploredAt>>

\* The event loop resumes background_tasks: its sleep is over, or it goes on
\* from where it was.
ResumeSweep ==
  LET t == tasks.task[SweepTask]
      r == RunToSuspension(World(dragon_stats, dragon_state, players), t, now)
  IN /\ t.pc = "sleep" => t.ticks < MaxTicks
     /\ dragon_stats' = r.w.stats
     /\ dragon_state' = r.w.row
     /\ players' = r.w.store
     /\ tasks' = [tasks EXCEPT !.task[SweepTask] = r.t]
     /\ last' = [op |-> "sweep", result |-> "swept"]
     /\ steps' = steps + 1
     /\ UNCHANGED <<player, now, totalExp, battle, exploredAt>>

NextTasks ==
  \/ \E i \in Requests : Resume(i)
  \/ ResumeSweep

SpecTasks == InitTasks /\ [][NextTasks]_vars

\* ------------------------------------------- battle_monster, round by round
\* Highest level of the dragon sent into a battle on its own.
MaxBattleLevel == 5

\* The draws of one round: randint(strength - 3, strength + 3) as its offset,
\* random.random() < 0.3, randint(attack - 2, attack + 2) as its offset, and
\* randint(1, 100).
RoundDraws ==
  {[jitter |-> j, fire |-> f, mjitter |-> m, dodge |-> d] :
     j \in RandInt(-3, 3), f \in BOOLEAN, m \in RandInt(-2, 2), d \in RandInt(1, 100)}

\* battle_monster called for player 1 with any monster and a dragon of any
\* level up to MaxBattleLevel: at full health or at health 1, with or without
\* the fire ability, and with its own intelligence or with intelligence 100
\* (every attack dodged).
InitBattle ==
  \E L \in 1..MaxBattleLevel, m \in DOMAIN monsters, hurt, fiery, smart \in BOOLEAN :
    /\ dragon_stats =
         [LevelledUp(DefaultStats(0), L) EXCEPT
            !.health = IF hurt THEN 1 ELSE @,
            !.abilities = IF fiery THEN Append(@, "Vognyane_dykhannya") ELSE @,
            !.intelligence = IF smart THEN 100 ELSE @]
    /\ dragon_state = SaveDragonState(dragon_stats)
    /\ players = [u \in Users |-> NoRow]
    /\ player = NoPlayer
    /\ now = 0
    /\ last = [op |-> "init", result |-> "none"]
    /\ totalExp = GrantedTo(L)
    /\ steps = 0
    /\ tasks = NoTasks
    /\ battle = [over |-> FALSE, monster_name |-> m,
                 monster_health |-> monsters[m].health,
                 dragon_health |-> dragon_stats.health, rounds |-> 0]
    /\ exploredAt = Never

\* The locals of the loop, as BattleContinues and BattleRound take them.
BattleLocals ==
  [monster_health |-> battle.monster_health, dragon_health |-> battle.dragon_health,
   rounds |-> battle.rounds]

\* One pass of the round loop.
FightRound(luck) ==
  LET n == BattleRound(dragon_stats, monsters[battle.monster_name].attack,
                       BattleLocals, luck)
  IN /\ ~battle.over
     /\ BattleContinues(BattleLocals)
     /\ battle' = [battle EXCEPT !.monster_health = n.monster_health,
                                 !.dragon_health = n.dragon_health,
                                 !.rounds = n.rounds]
     /\ UNCHANGED <<dragon_stats, dragon_state, players, player, now, last,
                    totalExp, steps, tasks, exploredAt>>

\* The loop is left: the result branch and the two saves.
BattleEnds ==
  LET r == BattleResult(dragon_stats, GetPlayer(players, 1),
                        monsters[battle.monster_name], BattleLocals)
  IN /\ ~battle.over
     /\ ~BattleContinues(BattleLocals)
     /\ battle' = [battle EXCEPT !.over = TRUE]
     /\ dragon_stats' = r.stats
     /\ dragon_state' = SaveDragonState(r.stats)
     /\ players' = SavePlayer(GetPlayerStore(players, 1), r.player)
     /\ player' = r.player
     /\ last' = [op |-> "battle", result |-> r.result]
     /\ totalExp' = totalExp + r.gained
     /\ steps' = steps + 1
     /\ UNCHANGED <<now, tasks, exploredAt>>

NextBattle ==
  \/ \E luck \in RoundDraws : FightRound(luck)
  \/ BattleEnds

\* The interpreter keeps executing the loop: a battle under way takes its
\* next step.
SpecBattle == InitBattle /\ [][NextBattle]_vars /\ WF_vars(NextBattle)

\* --------------------------------------- background_tasks, tick after tick
\* Hours that pass while the sweep is followed.
MaxSweepHours == 2

\* Lines 415-416 with the try around the loop instead of inside it: an
\* exception ends background_tasks.
Uncaught(pc) == "ended"

\* Where an exception raised by the statement at pc takes background_tasks:
\* to the except clause of lines 451-452, inside `while True`.
Caught(pc) == "except"

\* The dragons the sweep is followed on: hurt dragons without Regeneratsiya,
\* left alone so long that hunger and mood are close to where the ticks take
\* them for good.
SweepScenarios ==
  {[sc EXCEPT !.hunger = h, !.mood = m] :
     sc \in {x \in Scenarios : x.hurt /\ x.level < 10}, h \in {0, 4}, m \in {0, 8}}

\* The bot built inside a running event loop, with background_tasks at its
\* first sleep.
InitSweep ==
  \E sc \in SweepScenarios :
    /\ now = sc.downtime + 1
    /\ dragon_state = SaveDragonState(StoredStats(sc))
    /\ dragon_stats = LoadDragonState(DefaultStats(now), dragon_state)
    /\ players = [u \in Users |-> IF u = 1 THEN StockedRow(sc) ELSE NoRow]
    /\ player = NoPlayer
    /\ last = [op |-> "init", result |-> "none"]
    /\ totalExp = GrantedTo(sc.level) + sc.exp
    /\ steps = 0
    /\ battle = NoBattle
    /\ exploredAt = Never
    /\ tasks = [pc |-> "sleep", started |-> now]

\* Line 417: asyncio.sleep(300) returns; d is 1 when the sleep crossed the
\* hour.
SweepWakes(d) ==
  /\ tasks.pc = "sleep"
  /\ now + d <= tasks.started + MaxSweepHours
  /\ now' = now + d
  /\ tasks' = [tasks EXCEPT !.pc = "decay"]
  /\ UNCHANGED <<dragon_stats, dragon_state, players, player, last, totalExp, steps,
                 battle, exploredAt>>

\* Lines 419-441.
SweepDecays ==
  /\ tasks.pc = "decay"
  /\ dragon_stats' = Decay(dragon_stats)
  /\ tasks' = [tasks EXCEPT !.pc = "starve"]
  /\ UNCHANGED <<dragon_state, players, player, now, last, totalExp, steps,
                 battle, exploredAt>>

\* Lines 443-447.
SweepStarves ==
  /\ tasks.pc = "starve"
  /\ dragon_stats' = Starve(dragon_stats, now)
  /\ tasks' = [tasks EXCEPT !.pc = "save_state"]
  /\ UNCHANGED <<dragon_state, players, player, now, last, totalExp, steps,
                 battle, exploredAt>>

\* Line 449, and back to the head of the loop.
SweepSaves ==
  /\ tasks.pc = "save_state"
  /\ dragon_state' = SaveDragonState(dragon_stats)
  /\ tasks' = [tasks EXCEPT !.pc = "sleep"]
  /\ last' = [op |-> "sweep", result |-> "swept"]
  /\ UNCHANGED <<dragon_stats, players, player, now, totalExp, steps,
                 battle, exploredAt>>

\* A statement of the tick raises an Exception instead of taking effect.
SweepRaises ==
  /\ tasks.pc \in {"decay", "starve", "save_state"}
  /\ tasks' = [tasks EXCEPT !.pc = Caught(tasks.pc)]
  /\ UNCHANGED <<dragon_stats, dragon_state, players, player, now, last, totalExp,
                 steps, battle, exploredAt>>

\* Lines 451-452: the exception is logged; the loop goes on to its next sleep.
SweepLogs ==
  /\ tasks.pc = "except"
  /\ tasks' = [tasks EXCEPT !.pc = "sleep"]
  /\ last' = [op |-> "sweep", result |-> "logged"]
  /\ UNCHANGED <<dragon_stats, dragon_state, players, player, now, totalExp, steps,
                 battle, exploredAt>>

NextSweep ==
  \/ \E d \in {0, 1} : SweepWakes(d)
  \/ SweepDecays
  \/ SweepStarves
  \/ SweepSaves
  \/ SweepRaises
  \/ SweepLogs

\* The event loop keeps running the task: its sleep ends and each statement
\* that can run does; no exception is obliged to happen.
SpecSweep ==
  /\ InitSweep
  /\ [][NextSweep]_vars
  /\ WF_vars(SweepWakes(0))
  /\ WF_vars(SweepDecays)
  /\ WF_vars(SweepStarves)
  /\ WF_vars(SweepSaves)
  /\ WF_vars(SweepLogs)

\* ------------------------------------- requests while the sweep keeps going
\* Requests that arrive while the sweep is followed through tick after tick.
MaxHungerRequests == 1

\* The dragons the ticks are followed on: stored dragons below level 10,
\* left alone so long that hunger and mood are close to where the ticks
\* take them for good.
HungerScenarios ==
  {[sc EXCEPT !.hunger = h, !.mood = m] :
     sc \in {x \in Scenarios : ~x.fresh /\ x.level < 10}, h \in {0, 4}, m \in {0, 8}}

\* DragonBot.__init__ and init_database on the database such a run left.
InitHunger ==
  \E sc \in HungerScenarios :
    /\ now = sc.downtime
    /\ dragon_state = SaveDragonState(StoredStats(sc))
    /\ dragon_stats = LoadDragonState(DefaultStats(now), dragon_state)
    /\ players = [u \in Users |-> IF u = 1 THEN StockedRow(sc) ELSE NoRow]
    /\ player = NoPlayer
    /\ last = [op |-> "init", result |-> "none"]
    /\ totalExp = GrantedTo(sc.level) + sc.exp
    /\ steps = 0
    /\ tasks = NoTasks
    /\ battle = NoBattle
    /\ exploredAt = Never

\* One pass of background_tasks after its sleep; the loop is `while True`,
\* so there is always a next one.
Tick ==
  /\ dragon_stats' = SweepTick(dragon_stats, now)
  /\ dragon_state' = SaveDragonState(dragon_stats')
  /\ last' = [op |-> "sweep", result |-> "swept"]
  /\ UNCHANGED <<players, player, now, totalExp, steps, tasks, battle, exploredAt>>

\* A request, or an hour or a day passing, between two ticks.
NextHunger ==
  \/ \E u \in Users, item \in ItemIds, roll \in BOOLEAN :
       steps < MaxHungerRequests /\ Feed(u, item, <<roll, roll, roll>>)
  \/ \E u \in Users, item_id \in PurchaseIds :
       steps < MaxHungerRequests /\ Purchase(u, item_id)
  \/ \E u \in Users, d \in DailyDraws :
       steps < MaxHungerRequests
         /\ DailyReward(u, d.gold_reward, d.exp_reward, d.bonus)
  \/ \E u \in Users, mood_boost \in RandInt(5, 15) :
       steps < MaxHungerRequests /\ Play(u, mood_boost)
  \/ \E u \in Users : steps < MaxHungerRequests /\ Rest(u)
  \/ \E u \in Users, d \in ExploreDraws :
       steps < MaxHungerRequests
         /\ Explore(u, d.encounter, d.monster_name, d.luck, d.treasure_gold)
  \/ \E u \in Users, kind \in MessageKinds :
       steps < MaxHungerRequests /\ Message(u, kind)
  \/ \E d \in {1, HoursPerDay} : steps < MaxHungerRequests /\ AdvanceTime(d)
  \/ Tick

\* asyncio wakes background_tasks after every sleep: ticks keep coming.
SpecHunger == InitHunger /\ [][NextHunger]_vars /\ WF_vars(Tick)

\* --------------------------------------------- loading what the tables hold
\* What the tables can hold when the bot starts: the stats row absent, as an
\* earlier run saved it, not JSON, or JSON with a timestamp that is no ISO
\* date; player 1's row absent, as an earlier run saved it, with an
\* inventory that is not JSON, or with a NULL inventory.
StoredStatsRows(sc) ==
  {NoRow, SaveDragonState(StoredStats(sc)), GarbledRow,
   [SaveDragonState(StoredStats(sc)) EXCEPT !.last_fed = <<"text", 0>>]}

StoredPlayerRows(sc) ==
  {NoRow, StockedRow(sc), [StockedRow(sc) EXCEPT !.inventory = Garbled],
   [StockedRow(sc) EXCEPT !.inventory = Null]}

\* DragonBot.__init__ up to its call of init_database: the defaults in
\* memory, the tables as they were found.
InitLoad ==
  \E sc \in Scenarios :
    \E srow \in StoredStatsRows(sc), prow \in StoredPlayerRows(sc) :
      /\ now = sc.downtime
      /\ dragon_state = srow
      /\ dragon_stats = DefaultStats(now)
      /\ players = [u \in Users |-> IF u = 1 THEN prow ELSE NoRow]
      /\ player = NoPlayer
      /\ last = [op |-> "init", result |-> "none"]
      /\ totalExp = GrantedTo(sc.level) + sc.exp
      /\ steps = 0
      /\ tasks = NoTasks
      /\ battle = NoBattle
      /\ exploredAt = Never

\* init_database calls load_dragon_state.
CallLoadDragonState ==
  /\ last.op = "init"
  /\ dragon_stats' = LoadDragonState(dragon_stats, dragon_state)
  /\ last' = [op |-> "load_dragon_state",
              result |-> IF dragon_state = NoRow THEN "no row"
                         ELSE IF StatsDecodable(dragon_state) THEN "loaded"
                         ELSE "defaults kept"]
  /\ steps' = steps + 1
  /\ UNCHANGED <<dragon_state, players, player, now, totalExp, tasks, battle,
                 exploredAt>>

\* A handler calls get_player for user u.
CallGetPlayer(u) ==
  /\ last.op # "init"
  /\ steps < MaxSteps
  /\ IF GetPlayerRaises(players, u)
     THEN /\ last' = [op |-> "get_player", result |-> "raised"]
          /\ player' = NoPlayer
          /\ players' = players
     ELSE /\ last' = [op |-> "get_player", result |-> "returned"]
          /\ player' = GetPlayer(players, u)
          /\ players' = GetPlayerStore(players, u)
  /\ steps' = steps + 1
  /\ UNCHANGED <<dragon_stats, dragon_state, now, totalExp, tasks, battle, exploredAt>>

NextLoad ==
  \/ CallLoadDragonState
  \/ \E u \in Users : CallGetPlayer(u)

SpecLoad == InitLoad /\ [][NextLoad]_vars

\* ------------------------------------------------------------------ claims
NoDuplicates(seq) ==
  \A i, j \in 1..Len(seq) : i # j => seq[i] # seq[j]

\* C1: in every reachable state hunger, energy and mood lie in 0..100 and
\* health lies in 0..max_health.
C1_StatsInRange ==
  /\ dragon_stats.hunger \in 0..100
  /\ dragon_stats.energy \in 0..100
  /\ dragon_stats.mood \in 0..100
  /\ dragon_stats.health \in 0..dragon_stats.max_health

\* C1 witness: one play at mood 95 has raised the mood to its upper bound
\* and no further.
C1_Witness ==
  /\ last = [op |-> "play", result |-> "played"]
  /\ dragon_stats.mood = 100
  /\ dragon_stats.energy = 90
  /\ steps = 1

C3_SecondClaimRejected ==
  [][(/\ last = [op |-> "daily", result |-> "claimed"]
      /\ player.last_daily = Today(now)
      /\ last'.op = "daily"
      /\ player'.user_id = player.user_id)
     => (/\ last'.result = "AlreadyClaimedToday"
         /\ players' = players)]_vars

\* C4: the level is the unique L with 50*L*(L-1) <= E < 50*L*(L+1), where E
\* is all the experience granted so far, and exp = E - 50*L*(L-1); in
\* particular 0 <= exp < level*100.
C4_LevelFromTotalExp ==
  LET L == dragon_stats.level
  IN /\ 50 * L * (L - 1) <= totalExp
     /\ totalExp < 50 * L * (L + 1)
     /\ dragon_stats.exp = totalExp - 50 * L * (L - 1)
     /\ 0 <= dragon_stats.exp
     /\ dragon_stats.exp < L * 100

\* C4 witness: a victory over the golem has taken the dragon from level 4 to
\* level 5 with no experience left over.
C4_Witness ==
  /\ last = [op |-> "explore", result |-> "victory"]
  /\ dragon_stats.level = 5
  /\ dragon_stats.exp = 0
  /\ totalExp = 1000

C6_OneLevelUp ==
  [][last'.op = "check_level_up" =>
       IF dragon_stats.exp >= dragon_stats.level * 100
       THEN /\ last'.result = "True"
            /\ dragon_stats'.level = dragon_stats.level + 1
            /\ dragon_stats'.exp = dragon_stats.exp - dragon_stats.level * 100
            /\ dragon_stats'.max_health = dragon_stats.max_health + 20
            /\ dragon_stats'.health = dragon_stats'.max_health
            /\ dragon_stats'.strength = dragon_stats.strength + 2
            /\ dragon_stats'.endurance = dragon_stats.endurance + 2
            /\ dragon_stats'.intelligence = dragon_stats.intelligence + 1
            /\ dragon_stats'.charisma = dragon_stats.charisma + 1
       ELSE /\ last'.result = "False"
            /\ dragon_stats' = dragon_stats]_vars

\* C6 witness: a hurt dragon has levelled up from level 1 with 150 experience.
C6_Witness ==
  /\ last = [op |-> "check_level_up", result |-> "True"]
  /\ dragon_stats.level = 2
  /\ dragon_stats.exp = 50
  /\ dragon_stats.health = 120
  /\ steps = 1

\* C7: the abilities collection never holds the same ability twice.
C7_NoDuplicateAbility == NoDuplicates(dragon_stats.abilities)

\* C7 witness: player 1 has fed both fire stones and the dragon has the fire
\* ability (once).
C7_Witness ==
  /\ last = [op |-> "feed", result |-> "fed"]
  /\ player.user_id = 1
  /\ "vognyanyi_kamin" \notin DOMAIN player.inventory
  /\ InSeq("Vognyane_dykhannya", dragon_stats.abilities)
  /\ steps = 2

\* C8: a feed with an item the player does not hold returns ItemNotOwned and
\* leaves the dragon stats (timestamps included), the stored dragon row, the
\* player's dict and the player's stored row as they were.
C8_FeedUnownedChangesNothing ==
  [][(last'.op = "feed" /\ steps' = steps + 1 /\ now' = now) =>
       LET u == player'.user_id
           before == GetPlayer(players, u)
       IN (\E item \in {i \in ItemIds : NotOwned(before, i)}, roll \in BOOLEAN :
             Feed(u, item, <<roll, roll, roll>>))
          => (/\ last'.result = "ItemNotOwned"
              /\ dragon_stats' = dragon_stats
              /\ dragon_state' = dragon_state
              /\ player' = before
              /\ players' = GetPlayerStore(players, u))]_vars

\* C8 witness: player 1, who holds items, was refused a feed.
C8_Witness ==
  /\ last = [op |-> "feed", result |-> "ItemNotOwned"]
  /\ player.user_id = 1
  /\ DOMAIN player.inventory # {}

\* C9: a successful feed of an item with hunger_restore r sets hunger to
\* min(100, hunger + r), takes exactly one of that item from the inventory
\* (the entry goes when it reaches 0), adds exactly 5 to the feeder's
\* affection and stamps last_fed and last_interaction with the current time.
C9_SuccessfulFeed ==
  [][\A u \in Users, item \in ItemIds, roll \in BOOLEAN :
       (/\ last' = [op |-> "feed", result |-> "fed"]
        /\ player'.user_id = u
        /\ Feed(u, item, <<roll, roll, roll>>))
       => LET before == GetPlayer(players, u)
              after == GetPlayer(players', u)
          IN /\ dragon_stats'.hunger =
                  Min(100, dragon_stats.hunger + items[item].hunger_restore)
             /\ IF before.inventory[item] = 1
                THEN item \notin DOMAIN player'.inventory
                ELSE /\ item \in DOMAIN player'.inventory
                     /\ player'.inventory[item] = before.inventory[item] - 1
             /\ \A i \in DOMAIN before.inventory \ {item} :
                  /\ i \in DOMAIN player'.inventory
                  /\ player'.inventory[i] = before.inventory[i]
             /\ DOMAIN player'.inventory \subseteq DOMAIN before.inventory
             /\ player'.dragon_affection = before.dragon_affection + 5
             /\ after.inventory = player'.inventory
             /\ after.dragon_affection = player'.dragon_affection
             /\ dragon_stats'.last_fed = now
             /\ dragon_stats'.last_interaction = now]_vars

\* C9 witness: bread fed at hunger 50 gives hunger 60, the last loaf is gone
\* and the feeder's affection went from 55 to 60.
C9_Witness ==
  /\ last = [op |-> "feed", result |-> "fed"]
  /\ dragon_stats.hunger = 60
  /\ "hlib" \notin DOMAIN player.inventory
  /\ player.dragon_affection = 60
  /\ dragon_stats.last_fed = now
  /\ steps = 1

\* C10: a purchase with gold below the price, or of an id outside the
\* catalog, fails and leaves gold and inventory as they were, in the
\* player's dict and in the store.
C10_FailedPurchaseChangesNothing ==
  [][\A u \in Users, item_id \in PurchaseIds :
       (/\ last'.op = "purchase"
        /\ player'.user_id = u
        /\ \/ item_id \notin DOMAIN items
           \/ GetPlayer(players, u).gold < items[item_id].price
        /\ Purchase(u, item_id))
       => (/\ last'.result \in {"UnknownItem", "InsufficientGold"}
           /\ player' = GetPlayer(players, u)
           /\ players' = GetPlayerStore(players, u)
           /\ GetPlayer(players', u).gold = GetPlayer(players, u).gold
           /\ GetPlayer(players', u).inventory = GetPlayer(players, u).inventory)]_vars

\* C10 witness: player 1, with 120 gold, was refused the fire stone (200).
C10_Witness ==
  /\ last = [op |-> "purchase", result |-> "InsufficientGold"]
  /\ player.user_id = 1
  /\ player.gold = 120

\* C11: a purchase with gold >= price takes exactly the price off the
\* player's gold and adds exactly 1 to that item's count, in the player's
\* dict and in the store, and changes no other field of the player; and the
\* gold of every stored player and of the latest request's player is >= 0 in
\* every reachable state.
C11_SuccessfulPurchase ==
  /\ [](/\ \A u \in Users : players[u] # NoRow => players[u].gold >= 0
        /\ player # NoPlayer => player.gold >= 0)
  /\ [][\A u \in Users, item_id \in PurchaseIds :
          (/\ last'.op = "purchase"
           /\ player'.user_id = u
           /\ item_id \in DOMAIN items
           /\ GetPlayer(players, u).gold >= items[item_id].price
           /\ Purchase(u, item_id))
          => LET before == GetPlayer(players, u)
                 held == IF item_id \in DOMAIN before.inventory
                         THEN before.inventory[item_id] ELSE 0
             IN /\ last'.result = "bought"
                /\ player'.gold = before.gold - items[item_id].price
                /\ DOMAIN player'.inventory = DOMAIN before.inventory \cup {item_id}
                /\ player'.inventory[item_id] = held + 1
                /\ \A i \in DOMAIN before.inventory \ {item_id} :
                     player'.inventory[i] = before.inventory[i]
                /\ player' = [before EXCEPT !.gold = player'.gold,
                                            !.inventory = player'.inventory]
                /\ GetPlayer(players', u) = player'
                /\ \A v \in Users \ {u} : players'[v] = players[v]
                /\ dragon_stats' = dragon_stats
                /\ dragon_state' = dragon_state]_vars

\* C11 witness: player 1, holding one loaf and 120 gold, bought a second
\* loaf for 5.
C11_Witness ==
  /\ last = [op |-> "purchase", result |-> "bought"]
  /\ player.user_id = 1
  /\ player.gold = 115
  /\ "hlib" \in DOMAIN player.inventory
  /\ player.inventory["hlib"] = 2
  /\ steps = 1

\* C12: in every reachable state every entry of every inventory, stored or
\* in the latest request's dict, has a count >= 1.
C12_InventoryCountsPositive ==
  /\ \A u \in Users :
       players[u] # NoRow => \A e \in players[u].inventory : e[2] >= 1
  /\ player # NoPlayer =>
       \A i \in DOMAIN player.inventory : player.inventory[i] >= 1

\* C12 witness: player 2, who held nothing, has claimed a daily reward with a
\* loaf as the bonus and now holds exactly one loaf.
C12_Witness ==
  /\ last = [op |-> "daily", result |-> "claimed"]
  /\ player.user_id = 2
  /\ DOMAIN player.inventory = {"hlib"}
  /\ player.inventory["hlib"] = 1
  /\ players[2].inventory = {<<"hlib", 1>>}

\* The two requests have run to their end and the sweep is asleep.
RequestsDone ==
  /\ \A i \in Requests : tasks.task[i].pc = "done"
  /\ tasks.task[SweepTask].pc = "sleep"

\* A coroutine between its first read of the shared state and its last write.
InHandler(pc) == pc \notin {"answer", "reply", "done", "sleep"}

\* C13: however the event loop interleaves the handlers of two players, the
\* dragon's energy never becomes negative, and once both have ended (no
\* sweep tick having run) the dragon stats and the two tables are what
\* running the two handlers one after the other, in one of the two orders,
\* leaves; of two plays at 10 <= energy < 20, or two explorations at
\* 20 <= energy < 40, exactly one succeeds.
C13_HandlersSerialized ==
  LET a == tasks.task[1]
      b == tasks.task[2]
      cost == IF a.kind = "play" THEN PlayCost ELSE ExploreCost
      e == tasks.start.stats.energy
  IN /\ dragon_stats.energy >= 0
     /\ (RequestsDone /\ tasks.task[SweepTask].ticks = 0) =>
          /\ World(dragon_stats, dragon_state, players)
               \in Serial(tasks.start, Requests, 0, now)
          /\ (a.kind = b.kind /\ cost <= e /\ e < 2 * cost) =>
               (a.result = "InsufficientEnergy") # (b.result = "InsufficientEnergy")

\* C13 witness: two plays met energy 10; player 2's request was refused,
\* player 1's succeeded, and the energy is 0.
C13_Witness ==
  /\ RequestsDone
  /\ tasks.task[SweepTask].ticks = 0
  /\ tasks.start.stats.energy = PlayCost
  /\ tasks.task[1].kind = "play" /\ tasks.task[1].result = "played"
  /\ tasks.task[2].kind = "play" /\ tasks.task[2].result = "InsufficientEnergy"
  /\ dragon_stats.energy = 0

\* C14: the event loop never resumes the sweep while a request is between
\* its first read and its last write of the shared state (in particular
\* between battle_monster's read and write of health), nor a request while a
\* sweep tick is under way; and once the requests have ended, the dragon
\* stats and the tables are what running the two handlers and the sweep ticks
\* one after the other, in some order, leaves: no update is lost.
C14_SweepExclusive ==
  /\ [](RequestsDone =>
          World(dragon_stats, dragon_state, players)
            \in Serial(tasks.start, Requests, tasks.task[SweepTask].ticks, now))
  /\ [][(tasks'.task[SweepTask] # tasks.task[SweepTask])
          => \A i \in Requests : ~InHandler(tasks.task[i].pc)]_vars
  /\ [][(\E i \in Requests : tasks'.task[i] # tasks.task[i])
          => ~InHandler(tasks.task[SweepTask].pc)]_vars

\* C14 witness: a sweep tick with the starvation penalty and regeneration
\* has run next to a lost battle of player 1 (dragon with Regeneratsiya,
\* unfed for 361 hours) and a request of player 2.
C14_Witness ==
  /\ RequestsDone
  /\ tasks.task[SweepTask].ticks = 1
  /\ tasks.task[1].kind = "explore"
  /\ tasks.task[1].result = "defeat"
  /\ InSeq("Regeneratsiya", dragon_stats.abilities)
  /\ now - dragon_stats.last_fed > StarveHours

\* C15: a sweep tick takes 10 off health (floor 1) and 10 off mood (floor 0),
\* after its decay and regeneration, exactly when more than 360 hours have
\* passed since last_fed; so a tick that follows a successful feed within 360
\* hours applies no penalty.
C15_StarvationPenalty ==
  [][Sweep =>
       LET d == Decay(dragon_stats)
           unfed == now - dragon_stats.last_fed
       IN /\ unfed > StarveHours =>
               /\ dragon_stats'.health = Max(1, d.health - 10)
               /\ dragon_stats'.mood = Max(0, d.mood - 10)
          /\ unfed <= StarveHours =>
               /\ dragon_stats'.health = d.health
               /\ dragon_stats'.mood = d.mood
          /\ (last = [op |-> "feed", result |-> "fed"] /\ unfed <= StarveHours) =>
               dragon_stats' = d
          /\ dragon_state' = SaveDragonState(dragon_stats')]_vars

\* C15 witness: a tick 361 hours after the last feed has taken the mood of a
\* hungry, healthy level-4 dragon from 95 to 92 (hunger) and on to 82, and
\* its health from 160 to 150.
C15_Witness ==
  /\ last.op = "sweep"
  /\ now - dragon_stats.last_fed = StarveHours + 1
  /\ dragon_stats.mood = 82
  /\ dragon_stats.health = 150
  /\ steps = 2

\* C16: battle_monster terminates: every battle is eventually over, a round
\* is only fought while both sides have health > 0 and fewer than 10 rounds
\* were fought, never more than 10 rounds are fought, and the battle is over
\* only when the loop condition is false.
C16_BattleTerminates ==
  /\ <>(battle.over)
  /\ [](~battle.over => battle.rounds <= MaxRounds)
  /\ [](battle.over =>
          /\ battle.rounds <= MaxRounds
          /\ \/ battle.monster_health <= 0
             \/ battle.dragon_health <= 0
             \/ battle.rounds = MaxRounds)
  /\ [][battle'.rounds # battle.rounds =>
          /\ battle'.rounds = battle.rounds + 1
          /\ battle.monster_health > 0
          /\ battle.dragon_health > 0
          /\ battle.rounds < MaxRounds]_vars

\* C16 witness: a dragon with intelligence 100 dodged every attack of the
\* golem and the battle ended at the tenth round with both sides standing.
C16_Witness ==
  /\ battle.over
  /\ battle.rounds = MaxRounds
  /\ battle.monster_health > 0
  /\ battle.dragon_health > 0
  /\ dragon_stats.intelligence >= 100
  /\ last.op = "battle"

\* C17: a won battle adds exactly the monster's reward to the player's gold
\* and 1 to the reputation, and the monster's exp to the dragon's exp, after
\* which the level-up check runs: without a level-up the health is the
\* remaining battle health, with one it is the new max_health.
C17_VictoryRewards ==
  [][\A u \in Users, d \in ExploreDraws :
       (/\ last' = [op |-> "explore", result |-> "victory"]
        /\ player'.user_id = u
        /\ d.encounter
        /\ Explore(u, d.encounter, d.monster_name, d.luck, d.treasure_gold))
       => LET before == GetPlayer(players, u)
              monster == monsters[d.monster_name]
              end == BattleLoop(dragon_stats, monster.attack, monster.health,
                                dragon_stats.health, 0, d.luck)
              exp == dragon_stats.exp + monster.exp
              required_exp == dragon_stats.level * 100
          IN /\ end.dragon_health > 0
             /\ player' = [before EXCEPT !.gold = @ + monster.reward,
                                         !.reputation = @ + 1]
             /\ GetPlayer(players', u) = player'
             /\ totalExp' = totalExp + monster.exp
             /\ IF exp >= required_exp
                THEN /\ dragon_stats'.level = dragon_stats.level + 1
                     /\ dragon_stats'.exp = exp - required_exp
                     /\ dragon_stats'.max_health = dragon_stats.max_health + 20
                     /\ dragon_stats'.health = dragon_stats'.max_health
                ELSE /\ dragon_stats'.level = dragon_stats.level
                     /\ dragon_stats'.exp = exp
                     /\ dragon_stats'.max_health = dragon_stats.max_health
                     /\ dragon_stats'.health = end.dragon_health
             /\ dragon_state' = SaveDragonState(dragon_stats')]_vars

\* C17 witness: player 1's dragon (level 1, exp 50) beat the wolf in five
\* rounds, taking four blows of 10: gold 120 + 15, reputation 1, exp 60,
\* health 60.
C17_Witness ==
  /\ last = [op |-> "explore", result |-> "victory"]
  /\ player.user_id = 1
  /\ player.gold = 135
  /\ player.reputation = 1
  /\ dragon_stats.level = 1
  /\ dragon_stats.exp = 60
  /\ dragon_stats.health = 60

\* C18: a lost battle leaves the player's gold, reputation and exp and the
\* dragon's exp and level as they were, and leaves the dragon's health >= 1.
C18_DefeatNoRewards ==
  [][\A u \in Users, d \in ExploreDraws :
       (/\ last' = [op |-> "explore", result |-> "defeat"]
        /\ player'.user_id = u
        /\ d.encounter
        /\ Explore(u, d.encounter, d.monster_name, d.luck, d.treasure_gold))
       => LET before == GetPlayer(players, u)
              after == GetPlayer(players', u)
          IN /\ player'.gold = before.gold
             /\ player'.reputation = before.reputation
             /\ player'.exp = before.exp
             /\ after.gold = before.gold
             /\ after.reputation = before.reputation
             /\ after.exp = before.exp
             /\ totalExp' = totalExp
             /\ dragon_stats'.exp = dragon_stats.exp
             /\ dragon_stats'.level = dragon_stats.level
             /\ dragon_stats'.health >= 1
             /\ LoadsStats(dragon_state').health >= 1]_vars

\* C18 witness: player 1's hurt level-1 dragon rested and then lost a
\* battle: gold still 20, reputation 0, exp 95.
C18_Witness ==
  /\ last = [op |-> "explore", result |-> "defeat"]
  /\ player.user_id = 1
  /\ player.gold = 20
  /\ player.reputation = 0
  /\ dragon_stats.level = 1
  /\ dragon_stats.exp = 95
  /\ steps = 2

\* C19: a lost battle lowers the dragon's mood, or leaves it at 0 if it was
\* 0 already.
C19_DefeatLowersMood ==
  [][\A u \in Users, d \in ExploreDraws :
       (/\ last' = [op |-> "explore", result |-> "defeat"]
        /\ player'.user_id = u
        /\ d.encounter
        /\ Explore(u, d.encounter, d.monster_name, d.luck, d.treasure_gold))
       => \/ dragon_stats'.mood < dragon_stats.mood
          \/ dragon_stats.mood = 0 /\ dragon_stats'.mood = 0]_vars

\* C20: an exploration at energy < 20 is refused and leaves the dragon
\* stats, the stored dragon row, the player's dict and the player's stored
\* row as they were; at energy >= 20 it ends as a treasure find, a victory
\* or a defeat and in each case takes exactly 20 off the energy.
C20_ExploreEnergy ==
  [][\A u \in Users, d \in ExploreDraws :
       (/\ last'.op = "explore"
        /\ player'.user_id = u
        /\ Explore(u, d.encounter, d.monster_name, d.luck, d.treasure_gold))
       => IF dragon_stats.energy < ExploreCost
          THEN /\ last'.result = "InsufficientEnergy"
               /\ dragon_stats' = dragon_stats
               /\ dragon_state' = dragon_state
               /\ player' = GetPlayer(players, u)
               /\ players' = GetPlayerStore(players, u)
               /\ totalExp' = totalExp
          ELSE /\ last'.result \in {"treasure", "victory", "defeat"}
               /\ last'.result = "treasure" <=> ~d.encounter
               /\ dragon_stats'.energy = dragon_stats.energy - 20
               /\ LoadsStats(dragon_state').energy = dragon_stats.energy - 20]_vars

\* C20 witness: a hurt dragon with energy 30 lost a battle and is left with
\* energy 10.
C20_Witness ==
  /\ last = [op |-> "explore", result |-> "defeat"]
  /\ dragon_stats.energy = 10
  /\ steps = 1

\* C21: an exploration requested in the same hour as the latest exploration
\* that was carried out (so before a cooldown of 600 s has elapsed) is
\* refused as on cooldown and changes no state, even with energy >= 20.
C21_ExploreCooldown ==
  [][\A u \in Users, d \in ExploreDraws :
       (/\ last'.op = "explore"
        /\ player'.user_id = u
        /\ exploredAt = now
        /\ dragon_stats.energy >= ExploreCost
        /\ Explore(u, d.encounter, d.monster_name, d.luck, d.treasure_gold))
       => (/\ last'.result = "OnCooldown"
           /\ dragon_stats' = dragon_stats
           /\ dragon_state' = dragon_state
           /\ players' = GetPlayerStore(players, u))]_vars

\* C22: a play at energy >= 10 takes exactly 10 off the energy, raises the
\* mood by the drawn amount (5..15) up to 100 at most and adds exactly 3 to
\* the player's affection, in memory and in the store; at energy < 10 it
\* leaves the dragon stats, the stored dragon row and the player as they were.
C22_Play ==
  [][\A u \in Users, mood_boost \in RandInt(5, 15) :
       (/\ last'.op = "play"
        /\ player'.user_id = u
        /\ Play(u, mood_boost))
       => LET before == GetPlayer(players, u)
          IN IF dragon_stats.energy >= PlayCost
             THEN /\ last'.result = "played"
                  /\ mood_boost \in 5..15
                  /\ dragon_stats' =
                       [dragon_stats EXCEPT
                          !.energy = dragon_stats.energy - 10,
                          !.mood = Min(100, dragon_stats.mood + mood_boost)]
                  /\ dragon_state' = SaveDragonState(dragon_stats')
                  /\ player' = [before EXCEPT !.dragon_affection = @ + 3]
                  /\ GetPlayer(players', u) = player'
             ELSE /\ last'.result = "InsufficientEnergy"
                  /\ dragon_stats' = dragon_stats
                  /\ dragon_state' = dragon_state
                  /\ player' = before
                  /\ players' = GetPlayerStore(players, u)]_vars

\* C22 witness: a play at mood 70 with the draw 15 has left mood 85 and
\* energy 90, and player 1's affection went from 55 to 58.
C22_Witness ==
  /\ last = [op |-> "play", result |-> "played"]
  /\ player.user_id = 1
  /\ player.dragon_affection = 58
  /\ dragon_stats.mood = 85
  /\ dragon_stats.energy = 90
  /\ steps = 1

\* C23: a rest always succeeds; it sets energy to min(100, energy + 30) and
\* raises health by min(10, max_health - health) when the resting player's
\* affection is above 50, and leaves health as it was otherwise; nothing
\* else in the dragon stats and nothing in the player changes.
C23_Rest ==
  [][\A u \in Users :
       (/\ last'.op = "rest"
        /\ player'.user_id = u
        /\ Rest(u))
       => LET before == GetPlayer(players, u)
              healed == IF before.dragon_affection > 50
                        THEN dragon_stats.health
                               + Min(10, dragon_stats.max_health - dragon_stats.health)
                        ELSE dragon_stats.health
          IN /\ last'.result = "rested"
             /\ dragon_stats' =
                  [dragon_stats EXCEPT
                     !.energy = Min(100, dragon_stats.energy + 30),
                     !.health = healed]
             /\ dragon_state' = SaveDragonState(dragon_stats')
             /\ player' = before
             /\ players' = GetPlayerStore(players, u)]_vars

\* C23 witness: player 1 (affection 55) has rested the hurt level-9 dragon:
\* health 1 became 11; energy stayed at its cap.
C23_Witness ==
  /\ last = [op |-> "rest", result |-> "rested"]
  /\ player.user_id = 1
  /\ player.dragon_affection = 55
  /\ dragon_stats.level = 9
  /\ dragon_stats.health = 11
  /\ dragon_stats.energy = 100
  /\ steps = 1

\* The evolution path each mutation ability comes with (lines 283-284,
\* 290-291, 297-298).
MutationPath ==
  [Vognyane_dykhannya |-> "fire", Telepatiya |-> "wisdom", Nevydymist |-> "shadow"]

IsMutationAbility(a) == a \in DOMAIN MutationPath

\* The ability a catalog item can unlock, "none" for an item without a
\* mutation flag.
MutationOf(item) ==
  IF items[item].fire_mutation THEN "Vognyane_dykhannya"
  ELSE IF items[item].wisdom_mutation THEN "Telepatiya"
  ELSE IF items[item].shadow_mutation THEN "Nevydymist"
  ELSE "none"

\* C24: evolution_path is "neutral" exactly when no mutation ability is
\* unlocked and otherwise the path of the mutation ability unlocked last;
\* and a fed mutation item adds its ability and overwrites evolution_path
\* with its path when its draw succeeds and the ability is not yet unlocked,
\* and leaves abilities and evolution_path as they were otherwise.
C24_EvolutionPath ==
  /\ [](LET unlocked == SelectSeq(dragon_stats.abilities, IsMutationAbility)
        IN dragon_stats.evolution_path =
             IF unlocked = <<>> THEN "neutral"
             ELSE MutationPath[unlocked[Len(unlocked)]])
  /\ [][\A u \in Users, item \in DOMAIN items, roll \in BOOLEAN :
          (/\ last' = [op |-> "feed", result |-> "fed"]
           /\ player'.user_id = u
           /\ MutationOf(item) # "none"
           /\ Feed(u, item, <<roll, roll, roll>>))
          => IF roll /\ ~InSeq(MutationOf(item), dragon_stats.abilities)
             THEN /\ dragon_stats'.abilities =
                       Append(dragon_stats.abilities, MutationOf(item))
                  /\ dragon_stats'.evolution_path = MutationPath[MutationOf(item)]
             ELSE /\ dragon_stats'.abilities = dragon_stats.abilities
                  /\ dragon_stats'.evolution_path = dragon_stats.evolution_path]_vars

\* C24 witness: the book of wisdom and then the shadow cloak took effect:
\* both abilities are unlocked, in that order, and the path is "shadow".
C24_Witness ==
  /\ last = [op |-> "feed", result |-> "fed"]
  /\ dragon_stats.abilities = <<"Iskorka", "Telepatiya", "Nevydymist">>
  /\ dragon_stats.evolution_path = "shadow"
  /\ steps = 2

\* C25: get_player creates a row with gold 100, level 1, exp 0, reputation
\* 0, an empty inventory and affection 0 only for a user id that has none;
\* for a user id that has a row it returns the stored values and leaves the
\* table as it is; a second call changes nothing and returns the same; a
\* row, once there, stays.
C25_GetPlayerIdempotent ==
  /\ [](\A u \in Users :
          LET once == GetPlayerStore(players, u)
              got == GetPlayer(players, u)
          IN /\ GetPlayerStore(once, u) = once
             /\ GetPlayer(once, u) = got
             /\ \A v \in Users \ {u} : once[v] = players[v]
             /\ got.user_id = u
             /\ IF players[u] = NoRow
                THEN /\ got.gold = 100 /\ got.level = 1 /\ got.exp = 0
                     /\ got.reputation = 0 /\ got.dragon_affection = 0
                     /\ DOMAIN got.inventory = {}
                     /\ once[u] # NoRow
                ELSE /\ once = players
                     /\ got.gold = players[u].gold
                     /\ got.level = players[u].level
                     /\ got.exp = players[u].exp
                     /\ got.reputation = players[u].reputation
                     /\ got.dragon_affection = players[u].dragon_affection
                     /\ got.last_daily = players[u].last_daily
                     /\ DumpsInventory(got.inventory) = players[u].inventory)
  /\ [][\A u \in Users : players[u] # NoRow => players'[u] # NoRow]_vars

\* C25 witness: player 2's row was created by a first request, a purchase of
\* bread; the second request found the row with gold 95 and one loaf, and
\* did not reset it.
C25_Witness ==
  /\ last.op = "rest"
  /\ player.user_id = 2
  /\ player.gold = 95
  /\ DOMAIN player.inventory = {"hlib"}
  /\ players[2] # NoRow
  /\ players[2].gold = 95
  /\ steps = 2

\* C26: an exception raised inside a sweep tick is caught and logged and
\* does not end the loop: background_tasks never ends, a tick in which an
\* exception was raised is followed by the start of another tick, and ticks
\* start again and again forever.
C26_SweepSurvives ==
  /\ [](tasks.pc # "ended")
  /\ (tasks.pc = "except") ~> (tasks.pc = "decay")
  /\ []<>(tasks.pc = "decay")

\* C26 witness: the save of a tick raised, the exception was logged, and the
\* sweep is at its next sleep with the stored row behind the stats in memory.
C26_Witness ==
  /\ tasks.pc = "sleep"
  /\ last = [op |-> "sweep", result |-> "logged"]
  /\ dragon_state # NoRow
  /\ LoadsStats(dragon_state) # dragon_stats

\* C27: loading malformed stored state never raises: get_player returns,
\* with an empty inventory when the stored inventory text cannot be decoded,
\* and load_dragon_state keeps the default stats when the stored stats
\* cannot be decoded.
C27_MalformedStateFallsBack ==
  /\ last.op = "get_player" =>
       /\ last.result = "returned"
       /\ players[player.user_id].inventory = Garbled =>
            DOMAIN player.inventory = {}
  /\ (last.op = "load_dragon_state" /\ dragon_state # NoRow
        /\ ~StatsDecodable(dragon_state)) =>
       dragon_stats = DefaultStats(now)

\* C28: battle_monster grants the monster's gold and exp and the point of
\* reputation only when the monster's health is 0 or below when the loop is
\* left: a battle that leaves the loop with the monster still standing, as
\* at the round cap with both sides alive, grants nothing.
C28_RewardsOnlyForKill ==
  [][(BattleEnds /\ battle.monster_health > 0)
       => /\ totalExp' = totalExp
          /\ player'.gold = GetPlayer(players, 1).gold
          /\ player'.reputation = GetPlayer(players, 1).reputation]_vars

\* C29: in every reachable state max_health = 100 + 20*(level - 1); no
\* operation lowers level or max_health, and no operation raises level by
\* more than 1.
C29_HealthTracksLevel ==
  /\ [](dragon_stats.max_health = 100 + 20 * (dragon_stats.level - 1))
  /\ [][/\ dragon_stats'.level \in {dragon_stats.level, dragon_stats.level + 1}
        /\ dragon_stats'.max_health >= dragon_stats.max_health]_vars

\* C29 witness: the crystal fed at level 4 with 350 experience took the
\* dragon to level 5, max_health 160 -> 180, fully healed.
C29_Witness ==
  /\ last.op = "feed"
  /\ dragon_stats.level = 5
  /\ dragon_stats.exp = 0
  /\ dragon_stats.max_health = 180
  /\ dragon_stats.health = 180
  /\ steps = 1

\* C30: in every reachable state Lyut is among the abilities exactly when
\* level >= 5 and Regeneratsiya exactly when level >= 10.
C30_LevelAbilities ==
  /\ InSeq("Lyut", dragon_stats.abilities) <=> dragon_stats.level >= 5
  /\ InSeq("Regeneratsiya", dragon_stats.abilities) <=> dragon_stats.level >= 10

\* C30 witness: the crystal fed at level 9 with 850 experience took the
\* dragon to level 10, and Regeneratsiya joined Lyut among its abilities.
C30_Witness ==
  /\ last.op = "feed"
  /\ dragon_stats.level = 10
  /\ dragon_stats.exp = 0
  /\ InSeq("Lyut", dragon_stats.abilities)
  /\ InSeq("Regeneratsiya", dragon_stats.abilities)
  /\ steps = 1

C32_Frames ==
  [][(now' = now /\ steps' = steps + 1) =>
       /\ last'.op \in {"purchase", "daily"} =>
            /\ dragon_stats' = dragon_stats
            /\ dragon_state' = dragon_state
       /\ last'.op = "rest" =>
            /\ \A u \in Users : players[u] # NoRow => players'[u] = players[u]
            /\ players' = GetPlayerStore(players, player'.user_id)
            /\ player' = GetPlayer(players, player'.user_id)
       /\ last'.op = "sweep" => players' = players]_vars

\* C32 witness: a sweep tick took the hunger of the level-1 dragon from 50
\* to 48 and left player 1 with 120 gold; the loaf player 1 then bought (5
\* gold) left the hunger at 48, in memory and in the stored row.
C32_Witness ==
  /\ last = [op |-> "purchase", result |-> "bought"]
  /\ player.user_id = 1
  /\ player.gold = 120 - items["hlib"].price
  /\ dragon_stats.hunger = 48
  /\ dragon_stats.exp = 50
  /\ dragon_state = SaveDragonState(dragon_stats)
  /\ steps = 2

\* C33: a step raises hunger only if it is a successful feed of an item with
\* hunger_restore; and with the sweep ticking on and the requests being
\* finitely many, hunger reaches 0 and from some point on stays 0.
C33_HungerRunsOut ==
  /\ [][dragon_stats'.hunger > dragon_stats.hunger =>
          /\ last' = [op |-> "feed", result |-> "fed"]
          /\ \E u \in Users, item \in ItemIds, roll \in BOOLEAN :
               /\ items[item].hunger_restore > 0
               /\ Feed(u, item, <<roll, roll, roll>>)]_vars
  /\ <>[](dragon_stats.hunger = 0)

\* C33 witness: player 1 fed the only loaf (hunger_restore 10, affection 55
\* to 60) to the level-1 dragon, and the ticks that followed have taken the
\* hunger back to 0.
C33_Witness ==
  /\ last = [op |-> "sweep", result |-> "swept"]
  /\ dragon_stats.hunger = 0
  /\ dragon_stats.last_fed = now
  /\ players[1].inventory = {<<"m_yaso", 2>>, <<"medovukha", 1>>}
  /\ players[1].dragon_affection = 60
  /\ steps = 1

====
